---------------------------- MODULE Spec2Model ----------------------------
(***************************************************************************)
(* A model of finstatement/parser.py: the extraction and classification    *)
(* pipeline of StatementParser.parse.  Texts are strings, the regular      *)
(* expressions of the source are kept as pattern trees and matched by a    *)
(* backtracking matcher with Python's priority order (leftmost start,      *)
(* alternatives left to right, greedy / lazy quantifiers), so first-match  *)
(* and ordering questions are decided by the patterns themselves.          *)
(*                                                                         *)
(* Representation:                                                         *)
(*   None            <<>>          Some(v)   <<v>>                         *)
(*   float amounts   integer cents (every amount token ends in \.\d{2})    *)
(*   confidences     integer units of 1/10000                              *)
(*   datetime        [year, month, day, secs]  (secs = seconds since       *)
(*                   midnight; 0 for a date parsed by strptime)            *)
(***************************************************************************)
EXTENDS Integers, Sequences, FiniteSets, TLC

VARIABLES
    file,             \* the document handed to parse(): [exists, pages]
    now,              \* what datetime.now() returns (frozen during a parse)
    pc,               \* position inside StatementParser.parse
    text,             \* local `text` of parse
    institution,      \* local `institution`
    statement_type,   \* local `statement_type`
    account_info,     \* AccountInfo record
    period,           \* Period record
    balance,          \* Balance record
    transactions,     \* list of Transaction records
    tx_starts,        \* history: offset in `text` of each transaction's match
    confidence,       \* confidence dict
    history,          \* history: the documents parsed before, with their outcomes
    file_paths,       \* batch_parse: the list of paths
    parallel,         \* batch_parse: the mode
    max_workers,      \* batch_parse: the size of the process pool
    batch_pc,         \* position inside batch_parse
    next_path,        \* index in file_paths of the next path to parse or to submit
    futures,          \* per submitted path, in order: [state, outcome]
    completions,      \* history: indices of file_paths in the order their parses ended
    snapshot,         \* futures already finished when as_completed began
    yielded,          \* indices of the futures as_completed has yielded, in order
    results,          \* the dict `results`, in insertion order: [path, result]
    errors            \* the paths of the "Error processing" lines printed

\* the state of the callers of parse()
caller_vars == <<history, file_paths, parallel, max_workers, batch_pc, next_path, futures,
                 completions, snapshot, yielded, results, errors>>

vars == <<file, now, pc, text, institution, statement_type, account_info,
          period, balance, transactions, tx_starts, confidence, caller_vars>>

(***************************************************************************)
(* Bounds of the model.                                                    *)
(***************************************************************************)
MaxLines == 2

(***************************************************************************)
(* Characters and str methods.                                             *)
(***************************************************************************)
UPPER == "ABCDEFGHIJKLMNOPQRSTUVWXYZ"

LOWER == "abcdefghijklmnopqrstuvwxyz"

DIGITS == "0123456789"

Chars(str) ==
    { SubSeq(str, k, k) : k \in 1..Len(str) }

Digit == Chars(DIGITS)

Alpha == Chars(UPPER) \cup Chars(LOWER)

\* \s of the re module (the vertical tab has no TLA+ escape and occurs in no text)
WS == {" ", "\t", "\n", "\r", "\f"}

None == <<>>

Some(v) == <<v>>

Min(S) ==
    CHOOSE m \in S : \A o \in S : m <= o

Max(S) ==
    CHOOSE m \in S : \A o \in S : m >= o

ToLower ==
    [c \in Chars(UPPER) |->
        LET k == CHOOSE k \in 1..Len(UPPER) : SubSeq(UPPER, k, k) = c
        IN  SubSeq(LOWER, k, k)]

\* str.lower()
RECURSIVE str_lower(_)
str_lower(s) ==
    IF Len(s) = 0 THEN ""
    ELSE IF Len(s) = 1 THEN (IF s \in DOMAIN ToLower THEN ToLower[s] ELSE s)
    ELSE LET h == Len(s) \div 2
         IN  str_lower(SubSeq(s, 1, h)) \o str_lower(SubSeq(s, h + 1, Len(s)))

\* str.replace(c, '') for a one-character c
RECURSIVE str_remove(_, _)
str_remove(s, c) ==
    IF Len(s) = 0 THEN ""
    ELSE IF Len(s) = 1 THEN (IF s = c THEN "" ELSE s)
    ELSE LET h == Len(s) \div 2
         IN  str_remove(SubSeq(s, 1, h), c) \o str_remove(SubSeq(s, h + 1, Len(s)), c)

\* str.strip()
str_strip(s) ==
    LET keep == { k \in 1..Len(s) : SubSeq(s, k, k) \notin WS }
    IN  IF keep = {} THEN "" ELSE SubSeq(s, Min(keep), Max(keep))

\* sub in s
str_contains(s, sub) ==
    \E k \in 1..(Len(s) - Len(sub) + 1) : SubSeq(s, k, k + Len(sub) - 1) = sub

\* len(s.split(c)) for a one-character c
str_split_len(s, c) ==
    Cardinality({ k \in 1..Len(s) : SubSeq(s, k, k) = c }) + 1

\* s.startswith(c)
str_startswith(s, c) ==
    Len(s) >= Len(c) /\ SubSeq(s, 1, Len(c)) = c

DigitVal(c) ==
    (CHOOSE k \in 1..Len(DIGITS) : SubSeq(DIGITS, k, k) = c) - 1

\* int(s) for a string of digits
RECURSIVE int_of(_)
int_of(s) ==
    IF Len(s) = 0 THEN 0
    ELSE 10 * int_of(SubSeq(s, 1, Len(s) - 1)) + DigitVal(SubSeq(s, Len(s), Len(s)))

\* str(n) for n >= 0
RECURSIVE str_of(_)
str_of(n) ==
    IF n < 10 THEN SubSeq(DIGITS, n + 1, n + 1)
    ELSE str_of(n \div 10) \o SubSeq(DIGITS, (n % 10) + 1, (n % 10) + 1)

(***************************************************************************)
(* The re module: pattern trees and the backtracking matcher.              *)
(***************************************************************************)
Lit(str) == [t |-> "lit", s |-> str]

Cls(S) == [t |-> "cls", c |-> S]

Dot == [t |-> "dot"]

Cat(rs) == [t |-> "cat", r |-> rs]

Alt(rs) == [t |-> "alt", r |-> rs]

\* r{lo,hi}, and r{lo,} (inf: no upper limit)
Rep(r, lo, hi, greedy) == [t |-> "rep", r |-> r, lo |-> lo, hi |-> hi, inf |-> FALSE, g |-> greedy]

RepInf(r, lo, greedy) == [t |-> "rep", r |-> r, lo |-> lo, hi |-> lo, inf |-> TRUE, g |-> greedy]

Grp(n, r) == [t |-> "grp", n |-> n, r |-> r]

Ahead(r) == [t |-> "ahead", r |-> r]

Eos == [t |-> "eos"]

\* quantifier shorthands:  x?  x*  x+  x+?  x*?  x{lo,hi}
Opt(r) == Rep(r, 0, 1, TRUE)

Star(r) == RepInf(r, 0, TRUE)

Plus(r) == RepInf(r, 1, TRUE)

PlusLazy(r) == RepInf(r, 1, FALSE)

StarLazy(r) == RepInf(r, 0, FALSE)

\* a literal of an alternation written under (?i): matched against the
\* lower-cased subject
ILit(str) == Lit(str_lower(str))

\* word1\s+word2\s+... under (?i)
RECURSIVE IWords(_)
IWords(ws) ==
    IF Len(ws) = 1 THEN <<ILit(ws[1])>>
    ELSE <<ILit(ws[1]), Plus(Cls(WS))>> \o IWords(Tail(ws))

\* lit1|lit2|... under (?i)
IAlts(ls) ==
    Alt([k \in 1..Len(ls) |-> ILit(ls[k])])

NoCaps == << <<0, 0>>, <<0, 0>>, <<0, 0>> >>

RECURSIVE Match(_, _, _, _)
RECURSIVE Extend(_, _, _, _, _)
RECURSIVE MatchCat(_, _, _, _)
RECURSIVE MatchAlt(_, _, _, _, _)
RECURSIVE MatchRep(_, _, _, _, _, _, _)

\* Every way node n matches s from position i, as <<end, captures>> pairs
\* in the order the backtracking matcher of re tries them.
Match(n, s, i, caps) ==
    CASE n.t = "lit" ->
           IF i + Len(n.s) - 1 <= Len(s) /\ SubSeq(s, i, i + Len(n.s) - 1) = n.s
           THEN << <<i + Len(n.s), caps>> >> ELSE <<>>
      [] n.t = "cls" ->
           IF i <= Len(s) /\ SubSeq(s, i, i) \in n.c
           THEN << <<i + 1, caps>> >> ELSE <<>>
      [] n.t = "dot" ->
           IF i <= Len(s) THEN << <<i + 1, caps>> >> ELSE <<>>
      [] n.t = "cat" -> MatchCat(n.r, 1, s, << <<i, caps>> >>)
      [] n.t = "alt" -> MatchAlt(n.r, 1, s, i, caps)
      [] n.t = "rep" ->
           IF n.r.t \in {"cls", "dot"}
           THEN \* a run of single characters: the longest first when greedy,
                \* the shortest first when lazy
                LET bad == IF n.r.t = "dot" THEN {}
                           ELSE { j \in i..Len(s) : SubSeq(s, j, j) \notin n.r.c }
                    run == (IF bad = {} THEN Len(s) + 1 ELSE Min(bad)) - i
                    top == IF n.inf \/ run < n.hi THEN run ELSE n.hi
                    cnt == top - n.lo + 1
                IN  IF cnt <= 0 THEN <<>>
                    ELSE [k \in 1..cnt |->
                            <<(IF n.g THEN i + top - (k - 1) ELSE i + n.lo + (k - 1)), caps>>]
           ELSE MatchRep(n.r, n.lo, n.hi, n.inf, n.g, s, << <<i, caps>> >>)
      [] n.t = "grp" ->
           LET rs == Match(n.r, s, i, caps)
           IN  [k \in 1..Len(rs) |->
                  <<rs[k][1], [rs[k][2] EXCEPT ![n.n] = <<i, rs[k][1] - 1>>]>>]
      [] n.t = "ahead" ->
           IF Match(n.r, s, i, caps) # <<>> THEN << <<i, caps>> >> ELSE <<>>
      [] n.t = "eos" ->
           \* $ without MULTILINE: at the end, or before a final newline
           IF i = Len(s) + 1 \/ (i = Len(s) /\ SubSeq(s, i, i) = "\n")
           THEN << <<i, caps>> >> ELSE <<>>

\* the partial matches ps[lo..hi], each continued by node n
Extend(n, s, ps, lo, hi) ==
    IF lo > hi THEN <<>>
    ELSE IF lo = hi THEN Match(n, s, ps[lo][1], ps[lo][2])
    ELSE LET mid == (lo + hi) \div 2
         IN  Extend(n, s, ps, lo, mid) \o Extend(n, s, ps, mid + 1, hi)

MatchCat(rs, k, s, ps) ==
    IF k > Len(rs) \/ ps = <<>> THEN ps
    ELSE MatchCat(rs, k + 1, s, Extend(rs[k], s, ps, 1, Len(ps)))

MatchAlt(rs, k, s, i, caps) ==
    IF k > Len(rs) THEN <<>>
    ELSE Match(rs[k], s, i, caps) \o MatchAlt(rs, k + 1, s, i, caps)

\* r{lo,hi} of a composite r, from the partial matches ps
MatchRep(r, lo, hi, inf, greedy, s, ps) ==
    IF ps = <<>> THEN <<>>
    ELSE IF hi = 0 /\ ~inf THEN ps
    ELSE IF Len(ps) > 1
         THEN MatchRep(r, lo, hi, inf, greedy, s, <<ps[1]>>)
              \o MatchRep(r, lo, hi, inf, greedy, s, Tail(ps))
    ELSE LET more == MatchRep(r, (IF lo > 0 THEN lo - 1 ELSE 0),
                              (IF hi > 0 THEN hi - 1 ELSE 0), inf, greedy, s,
                              Match(r, s, ps[1][1], ps[1][2]))
         IN  IF lo > 0 THEN more
             ELSE IF greedy THEN more \o ps ELSE ps \o more

NoMatch == [ok |-> FALSE]

\* the match object of the preferred way of ms, a match tried at position lo
match_at(ms, lo) ==
    IF ms # <<>>
    THEN [ok |-> TRUE, start |-> lo, end |-> ms[1][1], caps |-> ms[1][2]]
    ELSE NoMatch

\* a if it succeeded, else b
or_else(a, b) ==
    IF a.ok THEN a ELSE b

\* the first match of p starting in lo..hi
RECURSIVE SearchIn(_, _, _, _)
SearchIn(p, s, lo, hi) ==
    IF lo > hi THEN NoMatch
    ELSE IF lo = hi THEN match_at(Match(p, s, lo, NoCaps), lo)
    ELSE or_else(SearchIn(p, s, lo, (lo + hi) \div 2),
                 SearchIn(p, s, ((lo + hi) \div 2) + 1, hi))

\* A compiled pattern: its tree and whether IGNORECASE is set.  Under
\* IGNORECASE the tree is written in lower case and matched against the
\* lower-cased subject; capture offsets are those of the subject.
Pattern(ic, tree) == [ic |-> ic, tree |-> tree]

Subject(p, s) ==
    IF p.ic THEN str_lower(s) ELSE s

\* re.search(p, s)
re_search(p, s) ==
    SearchIn(p.tree, Subject(p, s), 1, Len(s) + 1)

\* re.fullmatch-like test used by strptime and float: p matches all of s
first_full(ms, end) ==
    IF \A k \in 1..Len(ms) : ms[k][1] # end THEN NoMatch
    ELSE [ok |-> TRUE, start |-> 1, end |-> end,
          caps |-> ms[Min({ k \in 1..Len(ms) : ms[k][1] = end })][2]]

re_fullmatch(p, s) ==
    first_full(Match(p.tree, Subject(p, s), 1, NoCaps), Len(s) + 1)

\* re.finditer(p, s): the non-overlapping matches, left to right
RECURSIVE FindFrom(_, _, _)
RECURSIVE FindAfter(_, _, _)
FindFrom(tree, s, from) ==
    FindAfter(tree, s, SearchIn(tree, s, from, Len(s) + 1))

\* m and the matches after it; an empty match moves the scan on by one
FindAfter(tree, s, m) ==
    IF ~m.ok THEN <<>>
    ELSE <<m>> \o FindFrom(tree, s, IF m.end > m.start THEN m.end ELSE m.end + 1)

re_finditer(p, s) ==
    FindFrom(p.tree, Subject(p, s), 1)

\* match.group(n) / match.group(0)
group(s, m, n) ==
    SubSeq(s, m.caps[n][1], m.caps[n][2])

(***************************************************************************)
(* datetime.strptime and float.                                            *)
(***************************************************************************)
\* the regular expressions _strptime builds for %m, %d, %Y and %y
Directive_m ==
    Alt(<<Cat(<<Lit("1"), Cls({"0", "1", "2"})>>), Cat(<<Lit("0"), Cls(Digit \ {"0"})>>), Cls(Digit \ {"0"})>>)

Directive_d ==
    Alt(<<Cat(<<Lit("3"), Cls({"0", "1"})>>), Cat(<<Cls({"1", "2"}), Cls(Digit)>>),
          Cat(<<Lit("0"), Cls(Digit \ {"0"})>>), Cls(Digit \ {"0"}), Cat(<<Lit(" "), Cls(Digit \ {"0"})>>)>>)

Directive_Y == Rep(Cls(Digit), 4, 4, TRUE)

Directive_y == Rep(Cls(Digit), 2, 2, TRUE)

\* the format "%m<sep>%d<sep>%Y" (long) or "%m<sep>%d<sep>%y"
DateFormat(sep, long) ==
    Cat(<<Grp(1, Directive_m), Lit(sep), Grp(2, Directive_d), Lit(sep),
          Grp(3, IF long THEN Directive_Y ELSE Directive_y)>>)

DaysInMonth(y, m) ==
    IF m = 2 THEN (IF (y % 4 = 0 /\ y % 100 # 0) \/ y % 400 = 0 THEN 29 ELSE 28)
    ELSE IF m \in {4, 6, 9, 11} THEN 30 ELSE 31

ValueError == [ok |-> FALSE]

\* datetime.strptime(s, fmt): the format's expression must match at the start
\* of s and leave nothing unconverted, and the day must exist in the month
\* datetime(year, month, day), which raises when the day is out of range
datetime(year, month, day) ==
    IF year < 1 \/ day > DaysInMonth(year, month) THEN ValueError
    ELSE [ok |-> TRUE, v |-> [year |-> year, month |-> month, day |-> day, secs |-> 0]]

\* %Y as written; %y with the pivot of _strptime (00-68 are 2000-2068)
year_of(yy, long) ==
    IF long THEN yy ELSE IF yy <= 68 THEN 2000 + yy ELSE 1900 + yy

\* the date of the ways ms in which the format's expression matches s
strptime_found(s, long, ms) ==
    IF ms = <<>> \/ ms[1][1] # Len(s) + 1 THEN ValueError
    ELSE datetime(year_of(int_of(SubSeq(s, ms[1][2][3][1], ms[1][2][3][2])), long),
                  int_of(str_strip(SubSeq(s, ms[1][2][1][1], ms[1][2][1][2]))),
                  int_of(str_strip(SubSeq(s, ms[1][2][2][1], ms[1][2][2][2]))))

strptime(s, sep, long) ==
    strptime_found(s, long, Match(DateFormat(sep, long), s, 1, NoCaps))

FloatSyntax ==
    Pattern(FALSE,
        Cat(<<Opt(Cls({"-", "+"})),
              Alt(<<Cat(<<Grp(1, Plus(Cls(Digit))), Opt(Cat(<<Lit("."), Grp(2, Star(Cls(Digit)))>>))>>),
                    Cat(<<Lit("."), Grp(2, Plus(Cls(Digit)))>>)>>)>>))

\* float(s), in cents (tokens carry at most two decimals)
cents_of(frac) ==
    IF Len(frac) = 0 THEN 0
    ELSE IF Len(frac) = 1 THEN 10 * int_of(frac)
    ELSE int_of(SubSeq(frac, 1, 2))

float_found(s, m) ==
    IF ~m.ok THEN ValueError
    ELSE [ok |-> TRUE,
          v |-> (IF str_startswith(s, "-") THEN 0 - 1 ELSE 1)
                 * (100 * int_of(group(s, m, 1)) + cents_of(group(s, m, 2)))]

float_of(s) ==
    float_found(s, re_fullmatch(FloatSyntax, s))

\* amount_str.replace('$', '').replace(',', '')
clean_amount(amount_str) ==
    str_remove(str_remove(amount_str, "$"), ",")

(***************************************************************************)
(* StatementParser.__init__: the pattern tables.                           *)
(***************************************************************************)
IWordsPat(ws) == Cat(IWords(ws))

institution_patterns ==
    << [id |-> "chase",      pattern |-> Pattern(TRUE, Alt(<<ILit("CHASE"), ILit("JPMorgan Chase")>>))],
       [id |-> "bofa",       pattern |-> Pattern(TRUE, Alt(<<IWordsPat(<<"Bank", "of", "America">>), ILit("BOFA")>>))],
       [id |-> "wellsfargo", pattern |-> Pattern(TRUE, IWordsPat(<<"Wells", "Fargo">>))],
       [id |-> "citi",       pattern |-> Pattern(TRUE, Cat(<<ILit("Citi"), Opt(ILit("bank"))>>))],
       [id |-> "amex",       pattern |-> Pattern(TRUE, Alt(<<IWordsPat(<<"American", "Express">>), ILit("AMEX")>>))],
       [id |-> "discover",   pattern |-> Pattern(TRUE, IWordsPat(<<"Discover", "Card">>))],
       [id |-> "capitalone", pattern |-> Pattern(TRUE, IWordsPat(<<"Capital", "One">>))],
       [id |-> "usbank",     pattern |-> Pattern(TRUE, Cat(<<ILit("U"), Opt(Lit(".")), ILit("S"), Opt(Lit(".")),
                                                            Plus(Cls(WS)), ILit("Bank")>>))],
       [id |-> "pnc",        pattern |-> Pattern(TRUE, IWordsPat(<<"PNC", "Bank">>))],
       [id |-> "tdbank",     pattern |-> Pattern(TRUE, IWordsPat(<<"TD", "Bank">>))],
       [id |-> "regions",    pattern |-> Pattern(TRUE, IWordsPat(<<"Regions", "Bank">>))],
       [id |-> "suntrust",   pattern |-> Pattern(TRUE, IAlts(<<"SunTrust", "Truist">>))],
       [id |-> "barclays",   pattern |-> Pattern(TRUE, ILit("Barclays"))],
       [id |-> "ally",       pattern |-> Pattern(TRUE, IWordsPat(<<"Ally", "Bank">>))],
       [id |-> "schwab",     pattern |-> Pattern(TRUE, IWordsPat(<<"Charles", "Schwab">>))],
       [id |-> "fidelity",   pattern |-> Pattern(TRUE, ILit("Fidelity"))],
       [id |-> "vanguard",   pattern |-> Pattern(TRUE, ILit("Vanguard"))] >>

category_patterns ==
    << [id |-> "dining",         pattern |-> Pattern(TRUE, IAlts(<<"restaurant", "dining", "food", "cafe", "coffee",
            "starbucks", "mcdonalds", "chipotle", "pizza", "burger", "taco", "sushi">>))],
       [id |-> "grocery",        pattern |-> Pattern(TRUE, IAlts(<<"grocery", "groceries", "supermarket", "market",
            "food", "whole foods", "trader", "safeway", "kroger", "albertsons", "wegmans", "publix">>))],
       [id |-> "transportation", pattern |-> Pattern(TRUE, IAlts(<<"uber", "lyft", "taxi", "cab", "transport",
            "transit", "metro", "subway", "train", "bus", "airline", "flight", "gas", "fuel", "chevron",
            "shell", "exxon">>))],
       [id |-> "shopping",       pattern |-> Pattern(TRUE, IAlts(<<"amazon", "ebay", "walmart", "target", "costco",
            "shop", "store", "retail", "outlet", "mall", "clothing", "apparel">>))],
       [id |-> "utilities",      pattern |-> Pattern(TRUE, IAlts(<<"utility", "utilities", "electric", "water",
            "gas", "power", "energy", "cable", "internet", "phone", "mobile", "wireless", "verizon", "at&t",
            "t-mobile">>))],
       [id |-> "entertainment",  pattern |-> Pattern(TRUE, IAlts(<<"netflix", "hulu", "spotify", "apple", "google",
            "movie", "theater", "cinema", "concert", "ticket", "entertainment">>))],
       [id |-> "health",         pattern |-> Pattern(TRUE, IAlts(<<"medical", "doctor", "pharmacy", "drug", "health",
            "healthcare", "hospital", "clinic", "dental", "vision", "insurance">>))],
       [id |-> "personal",       pattern |-> Pattern(TRUE, IAlts(<<"salon", "spa", "beauty", "barber", "hair",
            "nail", "gym", "fitness">>))],
       [id |-> "home",           pattern |-> Pattern(TRUE, IAlts(<<"home", "apartment", "rent", "lease", "mortgage",
            "furniture", "decor", "improvement", "repair", "maintenance">>))],
       [id |-> "subscription",   pattern |-> Pattern(TRUE, IAlts(<<"subscription", "recurring", "monthly", "annual",
            "membership", "prime", "fee">>))],
       [id |-> "income",         pattern |-> Pattern(TRUE, IAlts(<<"deposit", "direct deposit", "salary", "payroll",
            "payment received", "income", "revenue">>))],
       [id |-> "transfer",       pattern |-> Pattern(TRUE, IAlts(<<"transfer", "zelle", "venmo", "paypal",
            "cash app", "wire", "ach">>))],
       [id |-> "withdrawal",     pattern |-> Pattern(TRUE, IAlts(<<"withdrawal", "atm", "cash">>))] >>

(***************************************************************************)
(* StatementParser._extract_text                                           *)
(***************************************************************************)
SENTINEL == "ERROR: Unable to extract text from PDF"

\* the page loop: pages joined by the "--- PAGE n ---" delimiter
RECURSIVE join_pages(_, _)
join_pages(pages, n) ==
    IF n = 0 THEN ""
    ELSE join_pages(pages, n - 1)
         \o (IF n > 1 THEN "\n\n--- PAGE " \o str_of(n) \o " ---\n\n" ELSE "")
         \o pages[n]

\* open() of a missing file raises inside the try block; the handler then
\* substitutes the sentinel because nothing was extracted
_extract_text(f) ==
    IF f.exists THEN join_pages(f.pages, Len(f.pages)) ELSE SENTINEL

(***************************************************************************)
(* StatementParser._detect_institution, _detect_statement_type             *)
(***************************************************************************)
\* the for loop over institution_patterns.items(), from entry k on
RECURSIVE detect_from(_, _)
detect_from(txt, k) ==
    IF k > Len(institution_patterns) THEN "unknown"
    ELSE IF re_search(institution_patterns[k].pattern, txt).ok THEN institution_patterns[k].id
    ELSE detect_from(txt, k + 1)

\* variant: the institution whose name occurs first in the text
_detect_institution_by_position(txt) ==
    LET hit(k) == re_search(institution_patterns[k].pattern, txt)
        hits == { k \in 1..Len(institution_patterns) : hit(k).ok }
        first == CHOOSE k \in hits : \A j \in hits :
                     hit(k).start < hit(j).start \/ (hit(k).start = hit(j).start /\ k <= j)
    IN  IF hits = {} THEN "unknown" ELSE institution_patterns[first].id

_detect_institution(txt) ==
    detect_from(txt, 1)

credit_card_cues ==
    Pattern(TRUE, Alt(<<IWordsPat(<<"credit", "card">>), IWordsPat(<<"credit", "account">>),
                        ILit("APR"), IWordsPat(<<"cash", "advance">>)>>))

bank_cues ==
    Pattern(TRUE, Alt(<<ILit("checking"), ILit("savings"), IWordsPat(<<"bank", "statement">>),
                        ILit("deposit"), ILit("ATM"), ILit("withdraw")>>))

investment_cues ==
    Pattern(TRUE, IAlts(<<"investment", "portfolio", "securities", "brokerage", "fund", "stock", "bond">>))

\* variant: the bank cues tested before the credit-card cues
_detect_statement_type_bank_first(txt) ==
    IF re_search(bank_cues, txt).ok THEN "bank"
    ELSE IF re_search(credit_card_cues, txt).ok THEN "credit_card"
    ELSE IF re_search(investment_cues, txt).ok THEN "investment"
    ELSE "unknown"

_detect_statement_type(txt) ==
    IF re_search(credit_card_cues, txt).ok THEN "credit_card"
    ELSE IF re_search(bank_cues, txt).ok THEN "bank"
    ELSE IF re_search(investment_cues, txt).ok THEN "investment"
    ELSE "unknown"

(***************************************************************************)
(* StatementParser._extract_account_info                                   *)
(***************************************************************************)
Spaces == Plus(Cls(WS))

\* \d{lo,hi}
Digits(lo, hi) == Rep(Cls(Digit), lo, hi, TRUE)

account_patterns ==
    << Pattern(TRUE, Cat(<<ILit("account"), Spaces, Opt(Alt(<<ILit("number"), Lit("#"), ILit("no")>>)),
                           Plus(Cls({":", "."} \cup WS)), Plus(Cls({"*", "x"})), Grp(1, Digits(4, 4))>>)),
       Pattern(TRUE, Cat(<<ILit("account"), Spaces, Opt(Alt(<<ILit("ending"), Lit("#")>>)), Spaces,
                           Opt(Alt(<<ILit("in"), ILit("with")>>)), Spaces, Grp(1, Digits(4, 4))>>)),
       Pattern(TRUE, Cat(<<ILit("acct"), Spaces, Plus(Cls({"*", "x"})), Grp(1, Digits(4, 4))>>)) >>

name_patterns ==
    << Pattern(TRUE, Cat(<<ILit("account"), Spaces, ILit("name"), Opt(Lit(":")), Spaces, Grp(1, Plus(Cls(Chars(LOWER) \cup WS)))>>)),
       Pattern(TRUE, Cat(<<ILit("primary"), Spaces, ILit("account"), Spaces, ILit("holder"), Opt(Lit(":")),
                           Spaces, Grp(1, Plus(Cls(Chars(LOWER) \cup WS)))>>)) >>

\* `for pattern in patterns: m = re.search(pattern, text); if m: ...; break`:
\* the match of the first pattern of the list, from entry k on, that matches
RECURSIVE first_match(_, _, _)
first_match(patterns, txt, k) ==
    IF k > Len(patterns) THEN NoMatch
    ELSE or_else(re_search(patterns[k], txt), first_match(patterns, txt, k + 1))

format_account(digits) ==
    "xxxx-xxxx-xxxx-" \o digits

\* the AccountInfo of the first account match am and the first name match
\* nm, the patterns being looked for or not
account_of(txt, inst, stype, looked, am, nm) ==
    [number |-> IF looked /\ am.ok THEN format_account(group(txt, am, 1)) ELSE "Unknown",
     name |-> IF looked /\ nm.ok THEN Some(str_strip(group(txt, nm, 1))) ELSE None,
     institution |-> inst,
     type |-> stype]

\* variant: the account patterns consulted under every statement type
_extract_account_info_any_type(txt, inst, stype) ==
    account_of(txt, inst, stype, TRUE,
               first_match(account_patterns, txt, 1), first_match(name_patterns, txt, 1))

_extract_account_info(txt, inst, stype) ==
    account_of(txt, inst, stype, stype = "bank" \/ stype = "credit_card",
               first_match(account_patterns, txt, 1), first_match(name_patterns, txt, 1))

(***************************************************************************)
(* StatementParser._extract_period                                         *)
(***************************************************************************)
date_pattern(n) ==
    Grp(n, Cat(<<Digits(1, 2), Lit("/"), Digits(1, 2), Lit("/"), Digits(2, 4)>>))

\* the fourth pattern's class [-...] also lists the bytes of a mis-encoded
\* en dash; they are outside the alphabet of the texts
period_patterns ==
    << Pattern(TRUE, Cat(<<ILit("statement"), Spaces, ILit("period"), Opt(Lit(":")), Spaces,
                           date_pattern(1), Spaces, Alt(<<ILit("to"), ILit("through")>>), Spaces, date_pattern(2)>>)),
       Pattern(TRUE, Cat(<<ILit("from"), Spaces, date_pattern(1), Spaces, ILit("to"), Spaces, date_pattern(2)>>)),
       Pattern(TRUE, Cat(<<ILit("billing"), Spaces, ILit("period"), Opt(Lit(":")), Spaces,
                           date_pattern(1), Spaces, Alt(<<ILit("to"), ILit("through")>>), Spaces, date_pattern(2)>>)),
       Pattern(TRUE, Cat(<<Alt(<<ILit("period"), ILit("cycle")>>), Opt(Cat(<<Spaces, ILit("covered")>>)),
                           Opt(Lit(":")), Spaces, date_pattern(1), Star(Cls(WS)), Cls({"-"}),
                           Star(Cls(WS)), date_pattern(2)>>)) >>

\* variant: only "%m/%d/%Y" is tried before falling back to datetime.now()
parse_period_date_long_only(s, clock) ==
    IF strptime(s, "/", TRUE).ok THEN strptime(s, "/", TRUE).v ELSE clock

\* try "%m/%d/%Y", then "%m/%d/%y", then datetime.now()
value_or(d, fallback) ==
    IF d.ok THEN d.v ELSE fallback

parse_period_date(s, clock) ==
    value_or(or_else(strptime(s, "/", TRUE), strptime(s, "/", FALSE)), clock)

\* variant: the fallback period starting today instead of on the first of
\* the current month
period_of_from_today(txt, m, clock) ==
    IF m.ok
    THEN [start |-> parse_period_date(group(txt, m, 1), clock),
          end |-> parse_period_date(group(txt, m, 2), clock)]
    ELSE [start |-> clock, end |-> clock]

\* the Period of the match m of a period pattern, or the current month
period_of(txt, m, clock) ==
    IF m.ok
    THEN [start |-> parse_period_date(group(txt, m, 1), clock),
          end |-> parse_period_date(group(txt, m, 2), clock)]
    ELSE [start |-> [year |-> clock.year, month |-> clock.month, day |-> 1, secs |-> 0],
          end |-> clock]

_extract_period(txt, clock) ==
    period_of(txt, first_match(period_patterns, txt, 1), clock)

(***************************************************************************)
(* StatementParser._extract_balance                                        *)
(***************************************************************************)
\* [\$]?[\d,]+\.\d{2}
amount_pattern ==
    Cat(<<Opt(Lit("$")), Plus(Cls(Digit \cup {","})), Lit("."), Rep(Cls(Digit), 2, 2, TRUE)>>)

\* (?i)<words>:?\s+(<amount_pattern>)
balance_pattern(ws) ==
    Pattern(TRUE, Cat(IWords(ws) \o <<Opt(Lit(":")), Spaces, Grp(1, amount_pattern)>>))

closing_patterns(stype) ==
    << balance_pattern(<<"closing", "balance">>),
       balance_pattern(<<"ending", "balance">>),
       balance_pattern(<<"new", "balance">>),
       balance_pattern(<<"balance", "forward">>) >>
    \o (IF stype = "credit_card"
        THEN << balance_pattern(<<"new", "balance">>),
                balance_pattern(<<"total", "balance">>),
                balance_pattern(<<"statement", "balance">>) >>
        ELSE <<>>)

opening_patterns ==
    << balance_pattern(<<"opening", "balance">>),
       balance_pattern(<<"previous", "balance">>),
       balance_pattern(<<"beginning", "balance">>),
       Pattern(TRUE, Cat(<<ILit("balance"), Spaces, Alt(<<ILit("from"), ILit("as of")>>), Spaces,
                           ILit("last"), Spaces, ILit("statement"), Opt(Lit(":")), Spaces,
                           Grp(1, amount_pattern)>>)) >>

\* the Balance of the first closing match cm and the first opening match om
\* variant: the opening balance defaulted to 0.0 as the closing balance is
balance_of_opening_zero(txt, cm, om) ==
    [closing |-> IF cm.ok THEN float_of(clean_amount(group(txt, cm, 1))).v ELSE 0,
     opening |-> Some(IF om.ok THEN float_of(clean_amount(group(txt, om, 1))).v ELSE 0)]

\* variant: the opening balance kept only when a closing balance was found
balance_of_opening_with_closing(txt, cm, om) ==
    [closing |-> IF cm.ok THEN float_of(clean_amount(group(txt, cm, 1))).v ELSE 0,
     opening |-> IF cm.ok /\ om.ok THEN Some(float_of(clean_amount(group(txt, om, 1))).v) ELSE None]

balance_of(txt, cm, om) ==
    [closing |-> IF cm.ok THEN float_of(clean_amount(group(txt, cm, 1))).v ELSE 0,
     opening |-> IF om.ok THEN Some(float_of(clean_amount(group(txt, om, 1))).v) ELSE None]

_extract_balance(txt, stype) ==
    balance_of(txt, first_match(closing_patterns(stype), txt, 1),
               first_match(opening_patterns, txt, 1))

(***************************************************************************)
(* StatementParser._categorize_transaction                                 *)
(***************************************************************************)
\* the for loop over category_patterns.items(), from entry k on
RECURSIVE categorize_from(_, _)
categorize_from(description, k) ==
    IF k > Len(category_patterns)
    THEN IF str_contains(str_lower(description), "deposit")
            \/ str_contains(str_lower(description), "credit")
         THEN Some("income") ELSE None
    ELSE IF re_search(category_patterns[k].pattern, description).ok
         THEN Some(category_patterns[k].id)
    ELSE categorize_from(description, k + 1)

\* variant: no second look for "deposit" or "credit" when no pattern matches
_categorize_transaction_without_fallback(description) ==
    IF \E k \in 1..Len(category_patterns) : re_search(category_patterns[k].pattern, description).ok
    THEN categorize_from(description, 1)
    ELSE None

_categorize_transaction(description) ==
    categorize_from(description, 1)

(***************************************************************************)
(* StatementParser._extract_transactions                                   *)
(***************************************************************************)
transaction_headers ==
    << Cat(<<ILit("transaction"), Opt(ILit("s"))>>),
       IWordsPat(<<"account", "activity">>),
       Cat(<<ILit("payments"), Spaces, ILit("and"), Spaces, Opt(Cat(<<ILit("other"), Spaces>>)), ILit("credits")>>),
       Cat(<<ILit("purchases"), Spaces, ILit("and"), Spaces, Opt(Cat(<<ILit("other"), Spaces>>)), ILit("charges")>>) >>

\* variant: the span runs from the header to the end of the text
section_pattern_to_end(header) ==
    Pattern(TRUE, Cat(<<header, StarLazy(Dot), Ahead(Eos)>>))

\* f"{header}.*?(?=SUMMARY|TOTAL|BALANCE|STATEMENT|INFORMATION|$)", DOTALL | IGNORECASE
section_pattern(header) ==
    Pattern(TRUE, Cat(<<header, StarLazy(Dot),
                        Ahead(Alt(<<ILit("SUMMARY"), ILit("TOTAL"), ILit("BALANCE"), ILit("STATEMENT"),
                                    ILit("INFORMATION"), Eos>>))>>))

section_patterns ==
    [k \in 1..Len(transaction_headers) |-> section_pattern(transaction_headers[k])]

\* the span searched for transactions, and its offset in the text
section_of(txt, m) ==
    IF m.ok THEN [start |-> m.start, text |-> SubSeq(txt, m.start, m.end - 1)]
    ELSE [start |-> 1, text |-> txt]

transaction_section(txt) ==
    section_of(txt, first_match(section_patterns, txt, 1))

\* [A-Za-z0-9\s.,&\'"-]
DescChars == Alpha \cup Digit \cup WS \cup {".", ",", "&", "'", "\"", "-"}

Sign == Opt(Cls({"-", "+"}))

\* variant: the currency symbol optional in the institution-specific patterns
dollar_amount_optional_symbol ==
    Cat(<<Sign, Opt(Lit("$")), Plus(Cls(Digit \cup {","})), Lit("."), Digits(2, 2)>>)

\* ([-+]?\$[\d,]+\.\d{2})
dollar_amount ==
    Cat(<<Sign, Lit("$"), Plus(Cls(Digit \cup {","})), Lit("."), Digits(2, 2)>>)

chase_tx_pattern ==
    Pattern(FALSE, Cat(<<Grp(1, Cat(<<Digits(2, 2), Lit("/"), Digits(2, 2)>>)), Spaces, Grp(2, PlusLazy(Cls(DescChars))),
                         Spaces, Grp(3, dollar_amount)>>))

\* the Bank of America and the American Express blocks use the same pattern
full_date_tx_pattern ==
    Pattern(FALSE, Cat(<<Grp(1, Cat(<<Digits(2, 2), Lit("/"), Digits(2, 2), Lit("/"), Digits(2, 4)>>)), Spaces,
                         Grp(2, PlusLazy(Cls(DescChars))), Spaces, Grp(3, dollar_amount)>>))

\* (\d{1,2}<sep>\d{1,2}(?:<sep>\d{2,4})?)
generic_date(sep) ==
    Cat(<<Digits(1, 2), Lit(sep), Digits(1, 2), Opt(Cat(<<Lit(sep), Digits(2, 4)>>))>>)

\* f"{date_pattern}\\s+([A-Za-z0-9\\s.,&'\"()-]+?)\\s+{amount_pattern}"
combined_pattern(sep) ==
    Pattern(FALSE, Cat(<<Grp(1, generic_date(sep)), Spaces,
                         Grp(2, PlusLazy(Cls(DescChars \cup {"(", ")"}))), Spaces,
                         Grp(3, Cat(<<Sign, Opt(Lit("$")), Plus(Cls(Digit \cup {","})), Lit("."), Digits(2, 2)>>))>>))

date_separators == <<"/", "-">>

Transaction(date, description, amount, category) ==
    [date |-> date, description |-> description, amount |-> amount,
     balance |-> None, category |-> category]

\* A strategy's outcome: raised (an exception left the loop), else the
\* transactions appended and, for each, the offset of its match in the text.
Raised == [raised |-> TRUE, txs |-> <<>>, starts |-> <<>>]

Returned(txs, starts) == [raised |-> FALSE, txs |-> txs, starts |-> starts]

\* try "%m/%d/%Y" except ValueError: "%m/%d/%y"
full_date(date_str, sep) ==
    or_else(strptime(date_str, sep, TRUE), strptime(date_str, sep, FALSE))

negated(f) ==
    IF f.ok THEN [ok |-> TRUE, v |-> 0 - f.v] ELSE f

\* -float(s) if not s.startswith('-') else float(s), s the cleaned token
amex_float(cleaned) ==
    IF ~str_startswith(cleaned, "-") THEN negated(float_of(cleaned)) ELSE float_of(cleaned)

\* the tx_pattern, date parsing and amount parsing of the three
\* institution-specific blocks
specific_pattern(strategy) ==
    IF strategy = "chase" THEN chase_tx_pattern ELSE full_date_tx_pattern

specific_date(strategy, date_str, clock) ==
    IF strategy = "chase" THEN strptime(date_str \o "/" \o str_of(clock.year), "/", TRUE) ELSE full_date(date_str, "/")

specific_amount(strategy, amount_str) ==
    IF strategy = "amex" THEN amex_float(clean_amount(amount_str))
    ELSE float_of(clean_amount(amount_str))

\* One iteration of a loop over re.finditer: `raised` when a ValueError
\* leaves the iteration, `skipped` when it ends in continue, else the
\* transaction appended and the offset of its match in the text.
Step(raised, skipped, tx, start) ==
    [raised |-> raised, skipped |-> skipped, tx |-> tx, start |-> start]

\* the steps that appended a transaction, as the outcome of the loop
appended(steps) ==
    Returned([k \in 1..Len(steps) |-> steps[k].tx], [k \in 1..Len(steps) |-> steps[k].start])

\* the outcome of a loop from the outcomes of its iterations
loop_outcome(steps) ==
    IF \E k \in 1..Len(steps) : steps[k].raised THEN Raised
    ELSE appended(SelectSeq(steps, LAMBDA st : ~st.skipped))

\* an iteration of an institution-specific block: no handler around
\* strptime or float, so a ValueError leaves _extract_transactions
specific_step(d, a, description, category, start) ==
    IF ~d.ok \/ ~a.ok THEN Step(TRUE, FALSE, <<>>, start)
    ELSE Step(FALSE, FALSE, Transaction(d.v, description, a.v, category), start)

\* variant: the institution-specific blocks categorize as the generic one does
specific_match_categorized(strategy, sec, m, clock) ==
    specific_step(specific_date(strategy, group(sec.text, m, 1), clock),
                  specific_amount(strategy, group(sec.text, m, 3)),
                  str_strip(group(sec.text, m, 2)),
                  _categorize_transaction(str_strip(group(sec.text, m, 2))),
                  sec.start + m.start - 1)

specific_match(strategy, sec, m, clock) ==
    specific_step(specific_date(strategy, group(sec.text, m, 1), clock),
                  specific_amount(strategy, group(sec.text, m, 3)),
                  str_strip(group(sec.text, m, 2)), None, sec.start + m.start - 1)

specific_steps(strategy, sec, ms, clock) ==
    [k \in 1..Len(ms) |-> specific_match(strategy, sec, ms[k], clock)]

\* the loop of an institution-specific block over re.finditer
specific_transactions(strategy, sec, clock) ==
    loop_outcome(specific_steps(strategy, sec,
                                re_finditer(specific_pattern(strategy), sec.text), clock))

\* the separator of a date token of the generic block
separator_of(date_str) ==
    IF str_contains(date_str, "/") THEN "/" ELSE "-"

\* the date of a token that has a year component, or has none
generic_strptime(date_str, sep, clock) ==
    IF str_split_len(date_str, sep) > 2
    THEN full_date(date_str, sep)
    ELSE strptime(date_str \o sep \o str_of(clock.year), sep, TRUE)

\* variant: a date token without a year is parsed as "%m/%d" alone, which
\* strptime dates in its default year
generic_date_of_default_year(date_str, clock) ==
    value_or(IF str_split_len(date_str, separator_of(date_str)) > 2
             THEN full_date(date_str, separator_of(date_str))
             ELSE strptime(date_str \o separator_of(date_str) \o "1900",
                           separator_of(date_str), TRUE),
             clock)

\* the date parsing of the generic block; every ValueError is caught by the
\* outer handler and replaced by datetime.now()
generic_date_of(date_str, clock) ==
    value_or(generic_strptime(date_str, separator_of(date_str), clock), clock)

\* an iteration of the generic block: a match whose amount does not parse
\* is skipped (continue)
generic_step(date, a, description, start) ==
    IF ~a.ok THEN Step(FALSE, TRUE, <<>>, start)
    ELSE Step(FALSE, FALSE,
              Transaction(date, description, a.v, _categorize_transaction(description)), start)

generic_match(sec, m, clock) ==
    generic_step(generic_date_of(group(sec.text, m, 1), clock),
                 float_of(clean_amount(group(sec.text, m, 3))),
                 str_strip(group(sec.text, m, 2)), sec.start + m.start - 1)

generic_steps(sec, ms, clock) ==
    [k \in 1..Len(ms) |-> generic_match(sec, ms[k], clock)]

\* one pass of the generic block: the matches of one date shape
generic_pass(sep, sec, clock) ==
    loop_outcome(generic_steps(sec, re_finditer(combined_pattern(sep), sec.text), clock))

\* the transactions of the first pass followed by those of the second
both_passes(slash, dash) ==
    Returned(slash.txs \o dash.txs, slash.starts \o dash.starts)

\* for date_pattern in date_patterns: ... transactions.append(...)
generic_transactions(sec, clock) ==
    both_passes(generic_pass(date_separators[1], sec, clock),
                generic_pass(date_separators[2], sec, clock))

\* variant: the institution alone selects the block
strategy_of_institution_only(inst, stype) ==
    IF inst \in {"chase", "bofa", "amex"} THEN inst ELSE "generic"

\* the strategy the if / elif chain selects
strategy_of(inst, stype) ==
    IF inst = "chase" /\ stype = "credit_card" THEN "chase"
    ELSE IF inst = "bofa" /\ stype = "bank" THEN "bofa"
    ELSE IF inst = "amex" /\ stype = "credit_card" THEN "amex"
    ELSE "generic"

\* variant: an institution-specific block that finds nothing hands over to
\* the generic block
\* the specific outcome, or the generic one when the specific one is empty
or_generic(specific, sec, clock) ==
    IF ~specific.raised /\ specific.txs = <<>> THEN generic_transactions(sec, clock)
    ELSE specific

transactions_with_fallback(strategy, sec, clock) ==
    IF strategy = "generic" THEN generic_transactions(sec, clock)
    ELSE or_generic(specific_transactions(strategy, sec, clock), sec, clock)

_extract_transactions_with_fallback(txt, inst, stype, clock) ==
    transactions_with_fallback(strategy_of(inst, stype), transaction_section(txt), clock)

\* the branch of the if / elif chain taken, on the span sec
transactions_of(strategy, sec, clock) ==
    IF strategy = "generic" THEN generic_transactions(sec, clock)
    ELSE specific_transactions(strategy, sec, clock)

\* variant: the list is kept on the parser and every call appends to it
_extract_transactions_accumulating(txt, inst, stype, clock) ==
    LET r == transactions_of(strategy_of(inst, stype), transaction_section(txt), clock)
    IN  [raised |-> r.raised, txs |-> transactions \o r.txs, starts |-> tx_starts \o r.starts]

_extract_transactions(txt, inst, stype, clock) ==
    transactions_of(strategy_of(inst, stype), transaction_section(txt), clock)

(***************************************************************************)
(* StatementParser._calculate_confidence (scores in units of 1/10000)      *)
(***************************************************************************)
\* variant: the transactions score not capped at 0.9
_calculate_confidence_uncapped(acct, per, bal, txs, clock) ==
    LET a == IF acct.number # "Unknown" THEN 9000 ELSE 3000
        p == IF per.start.year = clock.year /\ per.start.month = clock.month
                /\ per.start.day = 1 THEN 3000 ELSE 9000
        b == IF bal.opening # None THEN 8000 ELSE 5000
        t == IF Len(txs) > 0 THEN 3000 + Len(txs) * 200 ELSE 1000
    IN  [account_info |-> a, period |-> p, balance |-> b, transactions |-> t,
         overall |-> (a + p + b + t) \div 4]

\* variant: the balance score raised only when a closing balance was found too
_calculate_confidence_closing_found(acct, per, bal, txs, clock) ==
    LET a == IF acct.number # "Unknown" THEN 9000 ELSE 3000
        p == IF per.start.year = clock.year /\ per.start.month = clock.month
                /\ per.start.day = 1 THEN 3000 ELSE 9000
        b == IF bal.opening # None /\ bal.closing # 0 THEN 8000 ELSE 5000
        t == IF Len(txs) > 0 THEN Min({9000, 3000 + Len(txs) * 200}) ELSE 1000
    IN  [account_info |-> a, period |-> p, balance |-> b, transactions |-> t,
         overall |-> (a + p + b + t) \div 4]

_calculate_confidence(acct, per, bal, txs, clock) ==
    LET is_default_period == per.start.year = clock.year
                             /\ per.start.month = clock.month
                             /\ per.start.day = 1
        a == IF acct.number # "Unknown" THEN 9000 ELSE 3000
        p == IF is_default_period THEN 3000 ELSE 9000
        b == IF bal.opening # None THEN 8000 ELSE 5000
        t == IF Len(txs) > 0
             THEN (IF 9000 < 3000 + Len(txs) * 200 THEN 9000 ELSE 3000 + Len(txs) * 200)
             ELSE 1000
    IN  [account_info |-> a, period |-> p, balance |-> b, transactions |-> t,
         overall |-> (a + p + b + t) \div 4]

(***************************************************************************)
(* Documents.                                                              *)
(***************************************************************************)
RECURSIVE join_lines(_)
join_lines(ls) ==
    IF Len(ls) = 0 THEN ""
    ELSE IF Len(ls) = 1 THEN ls[1]
    ELSE ls[1] \o "\n" \o join_lines(Tail(ls))

\* one-page documents: an optional heading line and at most MaxLines lines
Docs(headings, lines) ==
    { [exists |-> TRUE,
       pages |-> <<join_lines((IF h = "" THEN <<>> ELSE <<h>>) \o ls)>>] :
         h \in headings, ls \in UNION { [1..k -> lines] : k \in 0..MaxLines } }

MissingFile == [exists |-> FALSE, pages |-> <<>>]

\* what datetime.now() may return
Clock2026 == [year |-> 2026, month |-> 11, day |-> 3, secs |-> 37267]

Clock2024 == [year |-> 2024, month |-> 2, day |-> 29, secs |-> 86399]

\* institution names and statement-type cues
DetectLines ==
    { "CHASE", "Bank of  America", "AMEX", "Purchases", "Credit Card", "Checking", "Brokerage", "hello" }

\* statement-type cues, and masked account numbers in the three phrasings
AccountHeadings ==
    { "", "Checking", "APR", "Brokerage" }

AccountLines ==
    { "Account number: ****1234", "Account ending in 5678", "Acct x9012",
      "Account Name: JOHN DOE", "hello" }

BalanceHeadings ==
    { "", "APR", "Checking" }

BalanceLines ==
    { "New Balance: $100.00", "Closing Balance: $1,234.56", "Total Balance 7.00",
      "Previous Balance: 1234.56", "balance forward 1,234.56" }

\* (institution, type) cues selecting the generic, Chase, Bank of America
\* and American Express strategies, and transaction lines
TxHeadings ==
    { "", "CHASE APR", "BOFA ATM", "AMEX APR" }

TxLines ==
    { "01/15 COFFEE $5.00",
      "01/16/26 GAS $20.00 01/17/26 RENT -$7.00",
      "01/15/2026 STORE +$50.00",
      "13/45 TAXI $9.00",
      "1-5 DEPOSIT 3.00" }

ScenarioText == "01/15 WHOLEFDS ABC 12345 -$50.00"

ScenarioLines ==
    { ScenarioText, "3/4/26 WHOLE FOODS 12.00", "12-31 Uber (trip) +$8.50", "Deposit 100.00" }

(***************************************************************************)
(* StatementParser.parse, one action per statement.                        *)
(***************************************************************************)
\* parse called directly: no session before it and no batch around it
NoCaller ==
    /\ history = <<>>
    /\ file_paths = <<>>
    /\ parallel = FALSE
    /\ max_workers = 1
    /\ batch_pc = "idle"
    /\ next_path = 1
    /\ futures = <<>>
    /\ completions = <<>>
    /\ snapshot = {}
    /\ yielded = <<>>
    /\ results = <<>>
    /\ errors = <<>>

InitWith(files, clocks) ==
    /\ file \in files
    /\ now \in clocks
    /\ pc = "extract_text"
    /\ text = ""
    /\ institution = ""
    /\ statement_type = ""
    /\ account_info = None
    /\ period = None
    /\ balance = None
    /\ transactions = <<>>
    /\ tx_starts = <<>>
    /\ confidence = None
    /\ NoCaller

ExtractText ==
    /\ pc = "extract_text"
    /\ text' = _extract_text(file)
    /\ pc' = "detect_institution"
    /\ UNCHANGED <<file, now, institution, statement_type, account_info, period, balance,
                   transactions, tx_starts, confidence>>
    /\ UNCHANGED caller_vars

DetectInstitution ==
    /\ pc = "detect_institution"
    /\ institution' = _detect_institution(text)
    /\ pc' = "detect_statement_type"
    /\ UNCHANGED <<file, now, text, statement_type, account_info, period, balance,
                   transactions, tx_starts, confidence>>
    /\ UNCHANGED caller_vars

DetectStatementType ==
    /\ pc = "detect_statement_type"
    /\ statement_type' = _detect_statement_type(text)
    /\ pc' = "extract_account_info"
    /\ UNCHANGED <<file, now, text, institution, account_info, period, balance,
                   transactions, tx_starts, confidence>>
    /\ UNCHANGED caller_vars

ExtractAccountInfo ==
    /\ pc = "extract_account_info"
    /\ account_info' = _extract_account_info(text, institution, statement_type)
    /\ pc' = "extract_period"
    /\ UNCHANGED <<file, now, text, institution, statement_type, period, balance,
                   transactions, tx_starts, confidence>>
    /\ UNCHANGED caller_vars

ExtractPeriod ==
    /\ pc = "extract_period"
    /\ period' = _extract_period(text, now)
    /\ pc' = "extract_balance"
    /\ UNCHANGED <<file, now, text, institution, statement_type, account_info, balance,
                   transactions, tx_starts, confidence>>
    /\ UNCHANGED caller_vars

ExtractBalance ==
    /\ pc = "extract_balance"
    /\ balance' = _extract_balance(text, statement_type)
    /\ pc' = "extract_transactions"
    /\ UNCHANGED <<file, now, text, institution, statement_type, account_info, period,
                   transactions, tx_starts, confidence>>
    /\ UNCHANGED caller_vars

\* a ValueError raised inside _extract_transactions propagates out of parse
ExtractTransactions ==
    /\ pc = "extract_transactions"
    /\ LET r == _extract_transactions(text, institution, statement_type, now)
       IN  /\ transactions' = r.txs
           /\ tx_starts' = r.starts
           /\ pc' = IF r.raised THEN "raised" ELSE "calculate_confidence"
    /\ UNCHANGED <<file, now, text, institution, statement_type, account_info, period,
                   balance, confidence>>
    /\ UNCHANGED caller_vars

\* the confidence scores and the construction of the StatementResult
CalculateConfidence ==
    /\ pc = "calculate_confidence"
    /\ confidence' = _calculate_confidence(account_info, period, balance, transactions, now)
    /\ pc' = "done"
    /\ UNCHANGED <<file, now, text, institution, statement_type, account_info, period,
                   balance, transactions, tx_starts>>
    /\ UNCHANGED caller_vars

Next ==
    \/ ExtractText
    \/ DetectInstitution
    \/ DetectStatementType
    \/ ExtractAccountInfo
    \/ ExtractPeriod
    \/ ExtractBalance
    \/ ExtractTransactions
    \/ CalculateConfidence

\* the StatementResult parse returns
StatementResult ==
    [account_info |-> account_info, period |-> period, balance |-> balance,
     transactions |-> transactions, confidence |-> confidence]

\* how the call of parse ended: an exception, or a result returned
Outcome ==
    IF pc = "raised" THEN [raised |-> TRUE, result |-> None]
    ELSE [raised |-> FALSE, result |-> StatementResult]

\* the number of parses a session makes after the first
MaxParses == 2

\* the documents of a session: plain text, generic and Chase transactions, a
\* Chase date that makes strptime raise, and a file that cannot be opened
SessionFiles ==
    { [exists |-> TRUE, pages |-> <<t>>] :
        t \in { "Opening Balance 7.00", "Account Number: 123456789 01/15 COFFEE $5.00",
                "CHASE APR\n01/15 TAXI $9.00", "CHASE APR\n13/45 TAXI $9.00" } }
    \cup {MissingFile}

\* parse is called again once the previous call has ended, on the same or on
\* another StatementParser (which holds only its constant pattern tables).
\* The names of the previous call are not cleared: every stage of the new
\* call binds its own before reading it.
Reparse ==
    /\ pc \in {"done", "raised"}
    /\ Len(history) < MaxParses
    /\ history' = Append(history, [file |-> file, outcome |-> Outcome])
    /\ file' \in SessionFiles
    /\ pc' = "extract_text"
    /\ UNCHANGED <<now, text, institution, statement_type, account_info, period, balance,
                   transactions, tx_starts, confidence>>
    /\ UNCHANGED <<file_paths, parallel, max_workers, batch_pc, next_path, futures,
                   completions, snapshot, yielded, results, errors>>

NextSession ==
    \/ Next
    \/ Reparse

\* sessions of up to MaxParses + 1 parses under a frozen clock
SpecSession ==
    InitWith(SessionFiles, {Clock2026, Clock2024}) /\ [][NextSession]_vars

(***************************************************************************)
(* parse(file_path) as one step, and batch_parse.                          *)
(***************************************************************************)
\* lines 143-158 of StatementParser.parse: r is what _extract_transactions
\* did; an exception it raised leaves parse
parse_result(acct, per, bal, r, clock) ==
    IF r.raised THEN [raised |-> TRUE, result |-> None]
    ELSE [raised |-> FALSE,
          result |-> [account_info |-> acct, period |-> per, balance |-> bal,
                      transactions |-> r.txs,
                      confidence |-> _calculate_confidence(acct, per, bal, r.txs, clock)]]

\* lines 139-146 of StatementParser.parse
parse_text(txt, inst, stype, clock) ==
    parse_result(_extract_account_info(txt, inst, stype), _extract_period(txt, clock),
                 _extract_balance(txt, stype), _extract_transactions(txt, inst, stype, clock),
                 clock)

\* parse(file_path): a fresh StatementParser and its parse method
parse(f, clock) ==
    parse_text(_extract_text(f), _detect_institution(_extract_text(f)),
               _detect_statement_type(_extract_text(f)), clock)

\* the longest list handed to batch_parse
MaxBatch == 3

\* the file system: two statements, a Chase statement whose date makes
\* strptime raise, and a path with no file behind it
FileSystem ==
    [p \in {"a.pdf", "b.pdf", "bad.pdf", "missing.pdf"} |->
        IF p = "a.pdf" THEN [exists |-> TRUE, pages |-> <<"Opening Balance 7.00">>]
        ELSE IF p = "b.pdf" THEN [exists |-> TRUE, pages |-> <<"01/15 COFFEE $5.00">>]
        ELSE IF p = "bad.pdf" THEN [exists |-> TRUE, pages |-> <<"CHASE APR\n13/45 TAXI $9.00">>]
        ELSE MissingFile]

\* parse(path) for every path of the file system, under the clock of the
\* batch
parse_path ==
    [p \in DOMAIN FileSystem |-> [c \in {Clock2026} |-> parse(FileSystem[p], c)]]

\* variant: an assignment replaces the entry written last
dict_set_over_last(d, path, value) ==
    IF Len(d) = 0 THEN <<[path |-> path, result |-> value]>>
    ELSE [d EXCEPT ![Len(d)] = [path |-> path, result |-> value]]

\* results[path] = value: a new key is inserted last, an existing key keeps
\* its place
dict_set(d, path, value) ==
    IF \E k \in 1..Len(d) : d[k].path = path
    THEN [k \in 1..Len(d) |-> IF d[k].path = path THEN [path |-> path, result |-> value]
                               ELSE d[k]]
    ELSE Append(d, [path |-> path, result |-> value])

\* variant: a failed parse is recorded too, with no result
results_after_recording_failures(d, path, o) ==
    dict_set(d, path, o.result)

\* try: results[path] = <outcome of parse> / except Exception: print(...)
results_after(d, path, o) ==
    IF o.raised THEN d ELSE dict_set(d, path, o.result)

errors_after(e, path, o) ==
    IF o.raised THEN Append(e, path) ELSE e

\* variant: as_completed yields the finished futures in any order
yieldable_in_any_order(snap, done, out) ==
    { done[k] : k \in 1..Len(done) } \ { out[k] : k \in 1..Len(out) }

\* the futures as_completed may yield next: first those of its snapshot, in
\* the order of a set; once these are out, the finished ones in the order
\* of their completion
yieldable(snap, done, out) ==
    IF \E i \in snap : \A k \in 1..Len(out) : out[k] # i
    THEN { i \in snap : \A k \in 1..Len(out) : out[k] # i }
    ELSE IF Len(out) < Len(done) THEN { SelectSeq(done, LAMBDA i : i \notin snap)[Len(out) - Cardinality(snap) + 1] }
    ELSE {}

\* batch_parse is called: every pipeline name is out of use
InitBatch ==
    /\ file = MissingFile
    /\ now = Clock2026
    /\ pc = "idle"
    /\ text = ""
    /\ institution = ""
    /\ statement_type = ""
    /\ account_info = None
    /\ period = None
    /\ balance = None
    /\ transactions = <<>>
    /\ tx_starts = <<>>
    /\ confidence = None
    /\ history = <<>>
    /\ file_paths \in UNION { [1..n -> DOMAIN FileSystem] : n \in 0..MaxBatch }
    /\ parallel \in BOOLEAN
    /\ max_workers \in (IF parallel THEN {1, 2} ELSE {1})
    /\ batch_pc = IF parallel THEN "submit" ELSE "loop"
    /\ next_path = 1
    /\ futures = <<>>
    /\ completions = <<>>
    /\ snapshot = {}
    /\ yielded = <<>>
    /\ results = <<>>
    /\ errors = <<>>

\* documents on which parse never completes (runaway pattern matching)
Runaway == {"runaway.pdf"}

\* the call parse(path) comes to an end, by returning or by raising
Terminates(path) == path \notin Runaway

\* batch_parse is called on a list that may hold documents whose parse never
\* completes
InitBatchRunaway ==
    /\ file = MissingFile
    /\ now = Clock2026
    /\ pc = "idle"
    /\ text = ""
    /\ institution = ""
    /\ statement_type = ""
    /\ account_info = None
    /\ period = None
    /\ balance = None
    /\ transactions = <<>>
    /\ tx_starts = <<>>
    /\ confidence = None
    /\ history = <<>>
    /\ file_paths \in UNION { [1..n -> {"a.pdf", "bad.pdf"} \cup Runaway] : n \in 0..MaxBatch }
    /\ parallel \in BOOLEAN
    /\ max_workers \in (IF parallel THEN {1, 2} ELSE {1})
    /\ batch_pc = IF parallel THEN "submit" ELSE "loop"
    /\ next_path = 1
    /\ futures = <<>>
    /\ completions = <<>>
    /\ snapshot = {}
    /\ yielded = <<>>
    /\ results = <<>>
    /\ errors = <<>>

\* one iteration of the sequential loop
SequentialParse ==
    /\ batch_pc = "loop"
    /\ next_path <= Len(file_paths)
    /\ Terminates(file_paths[next_path])
    /\ results' = results_after(results, file_paths[next_path],
                                parse_path[file_paths[next_path]][now])
    /\ errors' = errors_after(errors, file_paths[next_path],
                              parse_path[file_paths[next_path]][now])
    /\ completions' = Append(completions, next_path)
    /\ next_path' = next_path + 1
    /\ UNCHANGED <<file, now, pc, text, institution, statement_type, account_info, period,
                   balance, transactions, tx_starts, confidence, history>>
    /\ UNCHANGED <<file_paths, parallel, max_workers, batch_pc, futures, snapshot, yielded>>

\* executor.submit(parse, path), one path of the dict comprehension
Submit ==
    /\ batch_pc = "submit"
    /\ next_path <= Len(file_paths)
    /\ futures' = Append(futures, [state |-> "pending", outcome |-> None])
    /\ next_path' = next_path + 1
    /\ UNCHANGED <<file, now, pc, text, institution, statement_type, account_info, period,
                   balance, transactions, tx_starts, confidence, history>>
    /\ UNCHANGED <<file_paths, parallel, max_workers, batch_pc, completions, snapshot,
                   yielded, results, errors>>

\* a free worker process takes the oldest pending call
StartWorker ==
    /\ batch_pc \in {"submit", "collect"}
    /\ Cardinality({ i \in 1..Len(futures) : futures[i].state = "running" }) < max_workers
    /\ \E i \in 1..Len(futures) :
          /\ futures[i].state = "pending"
          /\ \A j \in 1..(i - 1) : futures[j].state # "pending"
          /\ futures' = [futures EXCEPT ![i].state = "running"]
    /\ UNCHANGED <<file, now, pc, text, institution, statement_type, account_info, period,
                   balance, transactions, tx_starts, confidence, history>>
    /\ UNCHANGED <<file_paths, parallel, max_workers, batch_pc, next_path, completions,
                   snapshot, yielded, results, errors>>

\* a worker's call of parse ends: its result or its exception is set on the
\* future
FinishWorker ==
    /\ batch_pc \in {"submit", "collect"}
    /\ \E i \in 1..Len(futures) :
          /\ futures[i].state = "running"
          /\ Terminates(file_paths[i])
          /\ futures' = [futures EXCEPT ![i] = [state |-> "finished",
                                                outcome |-> parse_path[file_paths[i]][now]]]
          /\ completions' = Append(completions, i)
    /\ UNCHANGED <<file, now, pc, text, institution, statement_type, account_info, period,
                   balance, transactions, tx_starts, confidence, history>>
    /\ UNCHANGED <<file_paths, parallel, max_workers, batch_pc, next_path, snapshot,
                   yielded, results, errors>>

\* as_completed(future_to_path) starts once every path is submitted: the
\* futures finished by now form its first, unordered, set
AsCompleted ==
    /\ batch_pc = "submit"
    /\ next_path > Len(file_paths)
    /\ snapshot' = { completions[k] : k \in 1..Len(completions) }
    /\ batch_pc' = "collect"
    /\ UNCHANGED <<file, now, pc, text, institution, statement_type, account_info, period,
                   balance, transactions, tx_starts, confidence, history>>
    /\ UNCHANGED <<file_paths, parallel, max_workers, next_path, futures, completions,
                   yielded, results, errors>>

\* one iteration of the loop over as_completed
Collect ==
    /\ batch_pc = "collect"
    /\ \E i \in yieldable(snapshot, completions, yielded) :
          /\ yielded' = Append(yielded, i)
          /\ results' = results_after(results, file_paths[i], futures[i].outcome)
          /\ errors' = errors_after(errors, file_paths[i], futures[i].outcome)
    /\ UNCHANGED <<file, now, pc, text, institution, statement_type, account_info, period,
                   balance, transactions, tx_starts, confidence, history>>
    /\ UNCHANGED <<file_paths, parallel, max_workers, batch_pc, next_path, futures,
                   completions, snapshot>>

\* variant: in parallel mode the collection is given up once it has started
Return_while_running ==
    /\ IF parallel THEN batch_pc = "collect"
       ELSE batch_pc = "loop" /\ next_path > Len(file_paths)
    /\ batch_pc' = "returned"
    /\ UNCHANGED <<file, now, pc, text, institution, statement_type, account_info, period,
                   balance, transactions, tx_starts, confidence, history>>
    /\ UNCHANGED <<file_paths, parallel, max_workers, next_path, futures, completions,
                   snapshot, yielded, results, errors>>

\* return results: after the last path, or after the last future was
\* yielded and the pool was shut down
Return ==
    /\ IF parallel THEN batch_pc = "collect" /\ Len(yielded) = Len(file_paths)
       ELSE batch_pc = "loop" /\ next_path > Len(file_paths)
    /\ batch_pc' = "returned"
    /\ UNCHANGED <<file, now, pc, text, institution, statement_type, account_info, period,
                   balance, transactions, tx_starts, confidence, history>>
    /\ UNCHANGED <<file_paths, parallel, max_workers, next_path, futures, completions,
                   snapshot, yielded, results, errors>>

NextBatch ==
    \/ SequentialParse
    \/ Submit
    \/ StartWorker
    \/ FinishWorker
    \/ AsCompleted
    \/ Collect
    \/ Return

\* batch_parse on every list of at most MaxBatch paths, in both modes
SpecBatch ==
    InitBatch /\ [][NextBatch]_vars

\* batch_parse with documents whose parse never completes.  The calling
\* process keeps running its loop, and the pool keeps running its workers:
\* every step that stays possible is eventually taken.
SpecBatchFair ==
    /\ InitBatchRunaway
    /\ [][NextBatch]_vars
    /\ WF_vars(SequentialParse)
    /\ WF_vars(Submit)
    /\ WF_vars(StartWorker)
    /\ WF_vars(FinishWorker)
    /\ WF_vars(AsCompleted)
    /\ WF_vars(Collect)
    /\ WF_vars(Return)

\* classification of institution names and type cues
SpecDetect ==
    InitWith(Docs({""}, DetectLines) \cup {MissingFile}, {Clock2026})
        /\ [][Next]_vars

\* account numbers under every statement type
SpecAccount ==
    InitWith(Docs(AccountHeadings, AccountLines) \cup {MissingFile}, {Clock2026})
        /\ [][Next]_vars

\* balance phrasings under credit-card and other statement types
SpecBalance ==
    InitWith(Docs(BalanceHeadings, BalanceLines) \cup {MissingFile}, {Clock2026})
        /\ [][Next]_vars

\* transaction lines under the four strategies
SpecTx ==
    InitWith(Docs(TxHeadings, TxLines) \cup {MissingFile}, {Clock2026})
        /\ [][Next]_vars

\* the end-to-end scenario, under two clocks
SpecScenario ==
    InitWith(Docs({""}, ScenarioLines) \cup {MissingFile}, {Clock2026, Clock2024})
        /\ [][Next]_vars

\* section headers and terminating keywords: text before a header, a keyword
\* after one, a keyword inside a word, two phrasings of the header on either
\* side of a keyword, and documents with no header
SpecSection ==
    InitWith(Docs({"", "1/4 PRE 1.00"},
                  { "Account Activity 1/8 ACT 6.00 Summary",
                    "Transactions 1/5 IN 2.00",
                    "Total 1/6 OUT 3.00",
                    "1/7 Subtotal 4.00" }) \cup {MissingFile},
             {Clock2026})
        /\ [][Next]_vars

\* strategy selection: the three listed institutions and none, each with a
\* credit-card cue, a bank cue or no cue, over lines in the two date shapes
SpecStrategy ==
    InitWith(Docs({"", "CHASE", "Bank of America", "AMEX"},
                  { "Credit Card", "Checking", "01/15 COFFEE $5.00", "01/16/26 GAS $20.00" })
                 \cup {MissingFile},
             {Clock2026})
        /\ [][Next]_vars

\* the two passes of the generic block: entries dated with slashes, with
\* dashes, and one whose description holds a dash-shaped token
SpecPasses ==
    InitWith(Docs({""}, { "01/15 COFFEE $5.00", "1-5 DEPOSIT 3.00", "01/15 1-5 X 3.00", "hello" })
                 \cup {MissingFile},
             {Clock2026})
        /\ [][Next]_vars

\* period phrasings: stated periods starting on the first of the clock's
\* month and elsewhere, an unparsable date, and lines no phrasing matches
SpecPeriod ==
    InitWith(Docs({""}, { "Statement Period: 11/01/2026 to 11/30/2026",
                          "From 10/05/26 to 11/04/26",
                          "Cycle: 02/01/2024 - 02/29/2024",
                          "Billing period: 13/45/2026 through 11/30/2026",
                          "Period 11/30/2026",
                          "CHASE checking" }) \cup {MissingFile},
             {Clock2026, Clock2024})
        /\ [][Next]_vars

\* the four period phrasings with a start after the end, an impossible
\* start, an impossible end and a three-digit year
SpecPeriodDates ==
    InitWith(Docs({""}, { "Cycle 12/31/26 - 1/5/26",
                          "Statement period 02/30/2026 to 11/30/2026",
                          "from 12/05/2026 to 11/31/26",
                          "Billing Period: 1/2/2026 through 3/4/202",
                          "hello" }) \cup {MissingFile},
             {Clock2026, Clock2024})
        /\ [][Next]_vars

\* generic transactions whose descriptions match two categories, one
\* category, only the deposit / credit heuristic, or nothing
SpecCategory ==
    InitWith(Docs({""}, { "1/5 Food 5.00",
                          "1/6 GAS 5.00",
                          "1/7 Rent a cab 5.00",
                          "1/8 CrEdIt memo 5.00",
                          "1/9 Cash DEPOSIT 5.00",
                          "2/1 XYZ 5.00" }) \cup {MissingFile},
             {Clock2026})
        /\ [][Next]_vars

\* the amount tokens "$1,234.56", "1234.56" and "1,234.56" after balance
\* phrasings and on transaction entries with short and with full dates, under
\* the four strategies
SpecAmount ==
    InitWith(Docs(TxHeadings, { "01/15 A $1,234.56 01/16 B 1234.56 01/17 C 1,234.56",
                                "01/15/26 A $1,234.56 01/16/26 B 1234.56 01/17/26 C 1,234.56",
                                "Closing Balance: $1,234.56 Opening Balance: 1,234.56",
                                "Ending Balance 1234.56" }) \cup {MissingFile},
             {Clock2026})
        /\ [][Next]_vars

\* the largest transaction list handed to _calculate_confidence
MaxTx == 52

\* _calculate_confidence called on its own with every combination of
\* fields: account number found or not, a default, a stated and a
\* first-of-the-month period, opening and closing balance found or not, and
\* up to MaxTx transactions
InitConfidence ==
    /\ file = [exists |-> TRUE, pages |-> <<>>]
    /\ now = Clock2026
    /\ pc = "calculate_confidence"
    /\ text = ""
    /\ institution = "chase"
    /\ statement_type = "bank"
    /\ account_info \in { [number |-> n, name |-> None, institution |-> "chase", type |-> "bank"] :
                            n \in {"Unknown", "XXXX-XXXX-XXXX-6789"} }
    /\ period \in { [start |-> [year |-> s[1], month |-> s[2], day |-> s[3], secs |-> s[4]],
                     end |-> [year |-> 2026, month |-> 11, day |-> s[5], secs |-> s[6]]] :
                      s \in { <<2026, 11, 1, 0, 3, 37267>>, <<2026, 11, 1, 0, 30, 0>>,
                              <<2026, 10, 5, 0, 4, 0>>, <<2025, 11, 1, 0, 30, 0>> } }
    /\ balance \in { [closing |-> c, opening |-> o] :
                       c \in {0, 123456}, o \in {None, Some(0), Some(99)} }
    /\ transactions \in { [i \in 1..n |-> Transaction([year |-> 2026, month |-> 1, day |-> 15,
                                                        secs |-> 0], "TAXI", 900, None)] :
                            n \in 0..MaxTx }
    /\ tx_starts = [i \in 1..Len(transactions) |-> i]
    /\ confidence = None
    /\ NoCaller

SpecConfidence ==
    InitConfidence /\ [][CalculateConfidence]_vars

(***************************************************************************)
(* Properties.                                                             *)
(***************************************************************************)
\* the entries of the institution table whose pattern matches the text
InstitutionHits(txt) ==
    { k \in 1..Len(institution_patterns) : re_search(institution_patterns[k].pattern, txt).ok }

\* C1: _detect_institution returns the id of the earliest-declared table
\* entry whose pattern matches anywhere in the text, wherever the matches
\* occur, and "unknown" exactly when no entry matches.
Thm_C1_FirstDeclaredInstitution ==
    pc = "detect_statement_type" =>
        LET hits == InstitutionHits(text)
        IN  /\ (institution = "unknown") <=> (hits = {})
            /\ hits # {} => institution = institution_patterns[Min(hits)].id

\* a text naming Bank of America before Chase is classified chase
Wit_C1_LaterInTextWins ==
    /\ pc = "detect_statement_type"
    /\ LET c == re_search(institution_patterns[1].pattern, text)
           b == re_search(institution_patterns[2].pattern, text)
       IN  c.ok /\ b.ok /\ b.start < c.start
    /\ institution = "chase"

\* C2: _detect_statement_type tests the credit-card, bank and investment
\* cues in that order and returns the first group that matches; "unknown"
\* exactly when none matches.
Thm_C2_StatementTypeOrder ==
    pc = "extract_account_info" =>
        LET cc == re_search(credit_card_cues, text).ok
            bk == re_search(bank_cues, text).ok
            iv == re_search(investment_cues, text).ok
        IN  /\ cc => statement_type = "credit_card"
            /\ (~cc /\ bk) => statement_type = "bank"
            /\ (~cc /\ ~bk /\ iv) => statement_type = "investment"
            /\ (statement_type = "unknown") <=> (~cc /\ ~bk /\ ~iv)

\* a text with a bank cue before a credit-card cue is credit_card
Wit_C2_CreditCardBeforeBank ==
    /\ pc = "extract_account_info"
    /\ LET c == re_search(credit_card_cues, text)
           b == re_search(bank_cues, text)
       IN  c.ok /\ b.ok /\ b.start < c.start
    /\ statement_type = "credit_card"

\* the account-number patterns that match the text
AccountHits(txt) ==
    { k \in 1..Len(account_patterns) : re_search(account_patterns[k], txt).ok }

\* the number formatted from the first-listed matching account pattern
FirstListedAccount(txt) ==
    format_account(group(txt, re_search(account_patterns[Min(AccountHits(txt))], txt), 1))

\* C3 (as stated): under every statement type the number comes from the
\* first-listed account pattern that matches, and is "Unknown" only when
\* none of the account patterns matches.
Cex_C3_AccountUnderEveryType ==
    pc = "extract_period" =>
        /\ AccountHits(text) # {} => account_info.number = FirstListedAccount(text)
        /\ account_info.number = "Unknown" => AccountHits(text) = {}

\* C3: when the statement type is bank or credit_card the number comes from
\* the first-listed account pattern that matches and is "Unknown" exactly
\* when none matches; under the types investment and unknown the patterns
\* are not consulted and the number is always "Unknown".
Thm_C3_AccountGatedByType ==
    pc = "extract_period" =>
        IF statement_type \in {"bank", "credit_card"}
        THEN /\ AccountHits(text) # {} => account_info.number = FirstListedAccount(text)
             /\ (account_info.number = "Unknown") <=> (AccountHits(text) = {})
        ELSE account_info.number = "Unknown"

\* a bank or credit-card text in which a later-listed pattern matches
\* earlier in the text than the first-listed one
Wit_C3_FirstListedPatternWins ==
    /\ pc = "extract_period"
    /\ statement_type \in {"bank", "credit_card"}
    /\ \E j, k \in AccountHits(text) :
          /\ j < k
          /\ re_search(account_patterns[k], text).start < re_search(account_patterns[j], text).start
    /\ account_info.number = FirstListedAccount(text)
    /\ account_info.number # "Unknown"

\* the closing phrasings C4 calls generic
GenericClosingPhrasings ==
    << balance_pattern(<<"closing", "balance">>),
       balance_pattern(<<"ending", "balance">>),
       balance_pattern(<<"balance", "forward">>) >>

\* C4 (as stated): when the statement type is not credit_card and none of
\* the phrasings closing balance, ending balance, balance forward matches,
\* the closing balance is the default 0.0.
Cex_C4_NewBalanceOnlyForCreditCard ==
    ( /\ pc = "extract_transactions"
      /\ statement_type # "credit_card"
      /\ ~first_match(GenericClosingPhrasings, text, 1).ok )
    => balance.closing = 0

\* the span searched for transactions and the strategy selected
Section == transaction_section(text)

Strategy == strategy_of(institution, statement_type)

SpecificMatches == re_finditer(specific_pattern(Strategy), Section.text)

GenericMatches(sep) == re_finditer(combined_pattern(sep), Section.text)

\* C5 (as stated): in the American Express strategy an amount token with an
\* explicit sign is stored with the signed value written, and an unsigned
\* one with the negated magnitude.
Cex_C5_AmexExplicitSignKept ==
    (pc = "calculate_confidence" /\ Strategy = "amex") =>
        /\ Len(transactions) = Len(SpecificMatches)
        /\ \A k \in 1..Len(SpecificMatches) :
              LET token == group(Section.text, SpecificMatches[k], 3)
                  value == float_of(clean_amount(token)).v
              IN  transactions[k].amount =
                      IF str_startswith(token, "-") \/ str_startswith(token, "+")
                      THEN value ELSE 0 - value

\* C6 (as stated): when an institution-specific pattern matches nothing and
\* the generic patterns match, the returned list is the generic strategy's
\* non-empty list.
Cex_C6_FallbackAfterSpecific ==
    ( /\ pc = "calculate_confidence"
      /\ Strategy # "generic"
      /\ Len(SpecificMatches) = 0
      /\ Len(GenericMatches("/")) + Len(GenericMatches("-")) > 0 )
    => /\ transactions = generic_transactions(Section, now).txs
       /\ transactions # <<>>

\* C6: the generic strategy is used only for the pairs other than
\* chase/credit_card, bofa/bank and amex/credit_card; for those three pairs
\* the list holds one transaction per match of the institution-specific
\* pattern, so it is empty when that pattern matches nothing, whatever the
\* generic patterns would match.
Thm_C6_NoFallbackAfterSpecific ==
    pc = "calculate_confidence" =>
        IF Strategy = "generic"
        THEN Len(transactions) = Len(GenericMatches("/")) + Len(GenericMatches("-"))
        ELSE Len(transactions) = Len(SpecificMatches)

\* an institution-specific strategy finds nothing where the generic
\* patterns match, and the list is empty
Wit_C6_SpecificEmptyGenericMatches ==
    /\ pc = "calculate_confidence"
    /\ Strategy # "generic"
    /\ Len(SpecificMatches) = 0
    /\ Len(GenericMatches("/")) + Len(GenericMatches("-")) > 0
    /\ transactions = <<>>

Cex_C8_OrderOfAppearance ==
    pc = "calculate_confidence" =>
        \A i, j \in 1..Len(tx_starts) : i < j => tx_starts[i] < tx_starts[j]

\* C9 (as stated): no strategy raises; every line that matches the
\* strategy's pattern is returned, whatever its date token.
Cex_C9_NeverRaises ==
    /\ pc # "raised"
    /\ pc = "calculate_confidence" =>
          Len(transactions) =
              IF Strategy = "generic"
              THEN Len(GenericMatches("/")) + Len(GenericMatches("-"))
              ELSE Len(SpecificMatches)

\* the date of the scenario's transaction: midnight of January 15 of the
\* current year
ScenarioDate == [year |-> now.year, month |-> 1, day |-> 15, secs |-> 0]

DefaultPeriod ==
    [start |-> [year |-> now.year, month |-> now.month, day |-> 1, secs |-> 0], end |-> now]

\* C11: the pipeline run on the sentinel text raises nothing and returns
\* the uniform default result: institution and type "unknown", number
\* "Unknown", no holder name, closing 0.0, no opening balance, no
\* transaction, the default current-month period, and the confidences
\* account_info 0.3, period 0.3, balance 0.5, transactions 0.1.
Thm_C11_SentinelDefaults ==
    (pc \in {"done", "raised"} /\ text = SENTINEL) =>
        /\ pc = "done"
        /\ institution = "unknown"
        /\ statement_type = "unknown"
        /\ account_info = [number |-> "Unknown", name |-> None,
                           institution |-> "unknown", type |-> "unknown"]
        /\ balance = [closing |-> 0, opening |-> None]
        /\ transactions = <<>>
        /\ period = DefaultPeriod
        /\ confidence.account_info = 3000
        /\ confidence.period = 3000
        /\ confidence.balance = 5000
        /\ confidence.transactions = 1000

\* a document that cannot be opened has gone through the whole pipeline
Wit_C11_SentinelParsed ==
    /\ pc = "done"
    /\ ~file.exists
    /\ text = SENTINEL

\* C12 (as stated): parse of a path that does not exist never returns a
\* StatementResult.
Cex_C12_MissingFileRaises ==
    ~file.exists => pc # "done"

\* 0.1 for no transaction, else min(0.9, 0.3 + 0.02 n), in units of 1/10000
TransactionsScore(n) ==
    IF n = 0 THEN 1000 ELSE Min({9000, 3000 + 200 * n})

\* C15: the transactions confidence depends on the transaction count n
\* only: 0.1 when n = 0 and min(0.9, 0.3 + 0.02 n) when n >= 1; hence 0.4
\* for n = 5, 0.9 for every n >= 50, never above 0.9, and non-decreasing in n
\* for n >= 1.
Thm_C15_TransactionsConfidence ==
    pc = "done" =>
        LET n == Len(transactions)
        IN  /\ confidence.transactions = TransactionsScore(n)
            /\ n = 5 => confidence.transactions = 4000
            /\ n >= 50 => confidence.transactions = 9000
            /\ confidence.transactions <= 9000
            /\ \A k \in 1..n :
                 _calculate_confidence(account_info, period, balance,
                                       SubSeq(transactions, 1, k), now).transactions
                     <= confidence.transactions

\* fifty or more transactions have been scored
Wit_C15_FiftyTransactions ==
    /\ pc = "done"
    /\ Len(transactions) >= 50
    /\ confidence.transactions = 9000

\* C16: the confidence map has exactly the keys account_info, period,
\* balance, transactions and overall; every score lies in [0, 1];
\* account_info is 0.9 iff the number is not "Unknown", else 0.3; balance is
\* 0.8 iff the opening balance is present, else 0.5, whatever the closing
\* balance; overall is the arithmetic mean of the other four.
Thm_C16_ConfidenceMap ==
    pc = "done" =>
        /\ DOMAIN confidence = {"account_info", "period", "balance", "transactions", "overall"}
        /\ \A k \in DOMAIN confidence : confidence[k] >= 0 /\ confidence[k] <= 10000
        /\ confidence.account_info = IF account_info.number # "Unknown" THEN 9000 ELSE 3000
        /\ confidence.balance = IF balance.opening # None THEN 8000 ELSE 5000
        /\ 4 * confidence.overall = confidence.account_info + confidence.period
                                      + confidence.balance + confidence.transactions

\* an opening balance scored 0.8 although no closing balance was found
Wit_C16_OpeningWithoutClosing ==
    /\ pc = "done"
    /\ balance.opening # None
    /\ balance.closing = 0
    /\ account_info.number # "Unknown"
    /\ confidence.balance = 8000

\* no period phrasing matches the text
NoPeriodPhrasing(txt) ==
    \A k \in 1..Len(period_patterns) : ~re_search(period_patterns[k], txt).ok

\* C17: with the clock fixed at T, for every text in which no period
\* phrasing matches, _extract_period returns the period from 00:00 of the
\* first day of T's month to T, and the period confidence computed from it
\* is 0.3.
Thm_C17_DefaultPeriod ==
    /\ (pc \in {"extract_balance", "extract_transactions", "calculate_confidence", "done",
                "raised"} /\ NoPeriodPhrasing(text))
           => period = DefaultPeriod
    /\ (pc = "done" /\ NoPeriodPhrasing(text)) => confidence.period = 3000

\* a readable text without period phrasing has been scored
Wit_C17_NoPhrasingScored ==
    /\ pc = "done"
    /\ file.exists
    /\ NoPeriodPhrasing(text)
    /\ period = DefaultPeriod
    /\ confidence.period = 3000

\* C20 (as stated): the period confidence is 0.3 exactly when no period
\* phrasing matched and 0.9 for every period extracted from a matched
\* phrasing, a stated period starting on the first day of the current month
\* included.
Cex_C20_PeriodScoreIffDefault ==
    pc = "done" => (confidence.period = 3000 <=> NoPeriodPhrasing(text))

AmountTokens == {"$1,234.56", "1234.56", "1,234.56"}

\* the amount tokens of the entries the generic slash pattern finds in the
\* section, and those of the entries the selected specific pattern finds
GenericTokens ==
    [k \in 1..Len(GenericMatches("/")) |-> group(Section.text, GenericMatches("/")[k], 3)]

SpecificTokens ==
    [k \in 1..Len(SpecificMatches) |-> group(Section.text, SpecificMatches[k], 3)]

Thm_C18_HistoryIndependent ==
    pc \in {"done", "raised"} =>
        \A i \in 1..Len(history) : history[i].file = file => history[i].outcome = Outcome

\* a document parsed again after a different document with a different result
Wit_C18_SameDocumentParsedTwice ==
    /\ pc = "done"
    /\ Len(history) = 2
    /\ history[1].file = file
    /\ history[2].file # file
    /\ history[2].outcome # Outcome
    /\ transactions # <<>>

\* the keys of the result mapping, in insertion order
Keys == [k \in 1..Len(results) |-> results[k].path]

\* the parse of the i-th path of the list returns a result
Succeeds(i) == ~parse_path[file_paths[i]][now].raised

\* C13: in both modes batch_parse attempts every document and returns a
\* mapping holding exactly the identifiers whose parse did not raise, each
\* with the result of its parse; an exception of one parse is caught and
\* reported, stops no other document from being parsed or recorded, and does
\* not end batch_parse, which goes on until it returns.
Thm_C13_BatchIsolation ==
    /\ batch_pc # "returned" => ENABLED NextBatch
    /\ batch_pc = "returned" =>
        /\ Len(completions) = Len(file_paths)
        /\ { completions[k] : k \in 1..Len(completions) } = 1..Len(file_paths)
        /\ { Keys[k] : k \in 1..Len(Keys) }
              = { file_paths[i] : i \in { j \in 1..Len(file_paths) : Succeeds(j) } }
        /\ \A k, l \in 1..Len(Keys) : Keys[k] = Keys[l] => k = l
        /\ \A k \in 1..Len(results) : results[k].result = parse_path[Keys[k]][now].result
        /\ Len(errors) = Cardinality({ j \in 1..Len(file_paths) : ~Succeeds(j) })
        /\ \A k \in 1..Len(errors) : parse_path[errors[k]][now].raised

\* a parallel batch whose first document raised returned the two others
Wit_C13_FailureIsolated ==
    /\ batch_pc = "returned"
    /\ parallel
    /\ Len(file_paths) = 3
    /\ ~Succeeds(1)
    /\ Len(results) = 2
    /\ errors = <<file_paths[1]>>

\* the keys inserted when the parses of the first n indices of `order` are
\* recorded in that order
RECURSIVE KeysIn(_, _)
KeysIn(order, n) ==
    IF n = 0 THEN <<>>
    ELSE IF Succeeds(order[n])
            /\ \A k \in 1..Len(KeysIn(order, n - 1)) : KeysIn(order, n - 1)[k] # file_paths[order[n]]
         THEN Append(KeysIn(order, n - 1), file_paths[order[n]])
         ELSE KeysIn(order, n - 1)

InputOrder == [i \in 1..Len(file_paths) |-> i]

\* the place of future i in a sequence of futures
Place(order, i) == CHOOSE k \in 1..Len(order) : order[k] = i

\* C14 (as stated): sequential mode inserts the identifiers in input order
\* restricted to the documents that succeeded; parallel mode inserts them
\* in the order in which the workers completed.
Cex_C14_ParallelCompletionOrder ==
    batch_pc = "returned" =>
        Keys = KeysIn(IF parallel THEN completions ELSE InputOrder, Len(file_paths))

\* C14: sequential mode parses the documents one at a time in input order
\* and inserts the identifiers in input order restricted to the documents
\* that succeeded.  Parallel mode inserts them in the order in which
\* as_completed yields the futures: those already finished when the
\* collection starts come first, in no particular order, and the others
\* follow in the order of their completion.
Thm_C14_InsertionOrder ==
    batch_pc = "returned" =>
        IF ~parallel
        THEN completions = InputOrder /\ Keys = KeysIn(InputOrder, Len(file_paths))
        ELSE /\ Keys = KeysIn(yielded, Len(file_paths))
             /\ \A a, b \in 1..Len(yielded) :
                   a < b =>
                     /\ yielded[b] \in snapshot => yielded[a] \in snapshot
                     /\ (yielded[a] \notin snapshot /\ yielded[b] \notin snapshot)
                           => Place(completions, yielded[a]) < Place(completions, yielded[b])

\* one worker completed three documents in input order, and the mapping
\* holds them in the reverse order
Wit_C14_ReverseOfCompletion ==
    /\ batch_pc = "returned"
    /\ parallel
    /\ max_workers = 1
    /\ completions = <<1, 2, 3>>
    /\ Len(Keys) = 3
    /\ Keys = <<file_paths[3], file_paths[2], file_paths[1]>>

\* the period phrasings, by place in the list, that match the text
PeriodHits(txt) ==
    { k \in 1..Len(period_patterns) : re_search(period_patterns[k], txt).ok }

\* the places of the slashes of a captured date
Slashes(s) == { i \in 1..Len(s) : SubSeq(s, i, i) = "/" }

\* what a captured date d/d/d stands for: month / day / four-digit year,
\* else month / day / two-digit year (00-68 in the 2000s), else the clock
DateWritten(s, clock) ==
    LET a == Min(Slashes(s))
        b == Max(Slashes(s))
        m == int_of(SubSeq(s, 1, a - 1))
        d == int_of(SubSeq(s, a + 1, b - 1))
        yy == int_of(SubSeq(s, b + 1, Len(s)))
        y == IF Len(s) - b = 4 THEN yy
             ELSE IF Len(s) - b = 2 THEN (IF yy <= 68 THEN 2000 + yy ELSE 1900 + yy)
             ELSE 0
    IN  IF y >= 1 /\ m \in 1..12 /\ d >= 1 /\ d <= DaysInMonth(y, m)
        THEN [year |-> y, month |-> m, day |-> d, secs |-> 0]
        ELSE clock

\* datetime a is later than datetime b
Later(a, b) ==
    \/ a.year > b.year
    \/ a.year = b.year /\ a.month > b.month
    \/ a.year = b.year /\ a.month = b.month /\ a.day > b.day
    \/ a.year = b.year /\ a.month = b.month /\ a.day = b.day /\ a.secs > b.secs

\* C21: _extract_period takes the first phrasing of its list that matches,
\* wherever the phrasings stand in the text; each of the two captured dates
\* is read on its own as month/day/4-digit-year, else month/day/2-digit-year,
\* else becomes the current timestamp, the other date being unaffected and
\* nothing raised; the dates are returned as captured even when the start is
\* later than the end.
Thm_C21_PeriodPhrasingOrder ==
    (pc \in {"extract_balance", "extract_transactions", "calculate_confidence", "done",
             "raised"} /\ PeriodHits(text) # {}) =>
        LET m == re_search(period_patterns[Min(PeriodHits(text))], text)
        IN  /\ period.start = DateWritten(group(text, m, 1), now)
            /\ period.end = DateWritten(group(text, m, 2), now)

\* the phrasing listed earlier stands later in the text and decides; its
\* start was read as written, its impossible end became the clock, and the
\* start is later than the end
Wit_C21_LaterPhrasingFirstListed ==
    /\ pc = "extract_balance"
    /\ PeriodHits(text) = {2, 4}
    /\ re_search(period_patterns[4], text).start < re_search(period_patterns[2], text).start
    /\ period.start = [year |-> 2026, month |-> 12, day |-> 5, secs |-> 0]
    /\ period.end = now
    /\ Later(period.start, period.end)

\* the categories, by place in the table, whose pattern matches a description
CategoryHits(description) ==
    { k \in 1..Len(category_patterns) :
        re_search(category_patterns[k].pattern, description).ok }

TerminatingKeywords == {"summary", "total", "balance", "statement", "information"}

\* the positions of txt at which a terminating keyword starts
KeywordStarts(txt) ==
    { p \in 1..Len(txt) :
        \E w \in TerminatingKeywords :
            /\ p + Len(w) - 1 <= Len(txt)
            /\ SubSeq(str_lower(txt), p, p + Len(w) - 1) = w }

\* the leftmost occurrence of each header phrasing in txt
HeaderHits(txt) ==
    [k \in 1..Len(transaction_headers) |-> re_search(Pattern(TRUE, transaction_headers[k]), txt)]

\* where the span ends when it starts at h: before the first terminating
\* keyword from h on, else at the end of the text (before a final newline)
SpanEnd(txt, h) ==
    Min({p \in KeywordStarts(txt) : p >= h}
        \cup {IF Len(txt) > 0 /\ SubSeq(txt, Len(txt), Len(txt)) = "\n" THEN Len(txt) ELSE Len(txt) + 1})

\* the start of the header occurrence that comes first in the text
EarliestHeader(txt) ==
    Min({HeaderHits(txt)[k].start : k \in {j \in 1..Len(transaction_headers) : HeaderHits(txt)[j].ok}})

\* the start of the leftmost occurrence of the first phrasing, in the order
\* of the header list, that occurs in the text at all
FirstListedHeader(txt) ==
    HeaderHits(txt)[Min({k \in 1..Len(transaction_headers) : HeaderHits(txt)[k].ok})].start

HasHeader(txt) ==
    \E k \in 1..Len(transaction_headers) : HeaderHits(txt)[k].ok

\* C23 (as stated): when a header occurs in the text, every returned
\* transaction starts at or after the header occurrence that comes first in
\* the text and before the first terminating keyword that follows it.
Cex_C23_SpanFromEarliestHeader ==
    (pc = "done" /\ HasHeader(text))
    => \A k \in 1..Len(tx_starts) :
           /\ tx_starts[k] >= EarliestHeader(text)
           /\ tx_starts[k] < SpanEnd(text, EarliestHeader(text))

\* C23 (amended): the header that starts the span is the leftmost occurrence
\* of the first phrasing in list order that occurs in the text; the span ends
\* before the first terminating keyword from there on, letter case ignored
\* and inside longer words too, or at the end of the text; every returned
\* transaction starts inside the span; with no header the span is the whole
\* text.
Thm_C23_SpanFromFirstListedHeader ==
    pc = "done"
    => IF HasHeader(text)
       THEN /\ Section.start = FirstListedHeader(text)
            /\ Section.text = SubSeq(text, FirstListedHeader(text),
                                     SpanEnd(text, FirstListedHeader(text)) - 1)
            /\ \A k \in 1..Len(tx_starts) :
                   /\ tx_starts[k] >= FirstListedHeader(text)
                   /\ tx_starts[k] < SpanEnd(text, FirstListedHeader(text))
       ELSE /\ Section = [start |-> 1, text |-> text]
            /\ Len(transactions) = Len(re_finditer(combined_pattern("/"), text))
                                   + Len(re_finditer(combined_pattern("-"), text))

\* a header preceded by a transaction line and followed by a keyword and
\* another transaction line: only the transaction in between is returned
Wit_C23_TextAroundSpanSkipped ==
    /\ pc = "done"
    /\ HasHeader(text)
    /\ FirstListedHeader(text) > 1
    /\ SpanEnd(text, FirstListedHeader(text)) <= Len(text)
    /\ Len(re_finditer(combined_pattern("/"), text)) = 3
    /\ Len(transactions) = 1

\* the three pairs that have a block of their own
SpecificPairs ==
    { <<"chase", "credit_card">>, <<"bofa", "bank">>, <<"amex", "credit_card">> }

\* the outcome (raised or not, and the transactions) of one block run alone
\* on the span
BlockOutcome(strategy) ==
    LET r == IF strategy = "generic" THEN generic_transactions(Section, now)
             ELSE specific_transactions(strategy, Section, now)
    IN  <<r.raised, r.txs>>

\* C24: the outcome of _extract_transactions is that of exactly one block:
\* the institution's own block for the pairs (chase, credit_card),
\* (bofa, bank) and (amex, credit_card), and the generic block for every
\* other pair, a listed institution with another type included.
Thm_C24_StrategyByPair ==
    pc \in {"calculate_confidence", "done", "raised"}
    => <<pc = "raised", transactions>>
         = BlockOutcome(IF <<institution, statement_type>> \in SpecificPairs
                        THEN institution ELSE "generic")

\* a Chase bank statement whose transactions are those of the generic block
\* and differ from what the Chase block gives on the same span
Wit_C24_ListedInstitutionOtherType ==
    /\ pc = "done"
    /\ institution = "chase"
    /\ statement_type = "bank"
    /\ transactions # <<>>
    /\ BlockOutcome("chase") # <<FALSE, transactions>>

\* the entries of a pattern list that match somewhere in the text
BalanceHits(patterns) ==
    { k \in 1..Len(patterns) : re_search(patterns[k], text).ok }

\* the amount the leftmost match of pattern p captures, in cents
AmountCaptured(p) ==
    float_of(clean_amount(group(text, re_search(p, text), 1))).v

\* C25: the closing balance is the amount captured by the first closing
\* pattern in list order that matches anywhere in the text, 0.0 when none
\* matches; the opening balance is the amount captured by the first of its
\* own four patterns that matches, absent exactly when none matches; each is
\* determined by its own list alone, whatever the other list finds.
Thm_C25_ClosingAndOpeningIndependent ==
    pc \in {"extract_transactions", "calculate_confidence", "done", "raised"}
    => /\ balance.closing
            = (IF BalanceHits(closing_patterns(statement_type)) = {} THEN 0
               ELSE AmountCaptured(closing_patterns(statement_type)
                                       [Min(BalanceHits(closing_patterns(statement_type)))]))
       /\ balance.opening
            = (IF BalanceHits(opening_patterns) = {} THEN None
               ELSE Some(AmountCaptured(opening_patterns[Min(BalanceHits(opening_patterns))])))
       /\ (balance.opening = None) <=> (BalanceHits(opening_patterns) = {})

\* an opening balance found in a text with no closing phrasing: the closing
\* balance is the default and the opening balance is present
Wit_C25_OpeningWithoutClosing ==
    /\ pc = "done"
    /\ BalanceHits(closing_patterns(statement_type)) = {}
    /\ BalanceHits(opening_patterns) # {}
    /\ balance.closing = 0
    /\ balance.opening = Some(123456)

\* the paths of the list are pairwise distinct
DistinctDocuments ==
    \A i, j \in 1..Len(file_paths) : file_paths[i] = file_paths[j] => i = j

\* a result mapping as a set of (identifier, result) pairs
Mapping(d) == { d[k] : k \in 1..Len(d) }

\* what sequential batch_parse returns for the first n paths of the list:
\* the loop body applied to one path after the other
RECURSIVE SequentialReturn(_)
SequentialReturn(n) ==
    IF n = 0 THEN {}
    ELSE IF parse_path[file_paths[n]][now].raised THEN SequentialReturn(n - 1)
    ELSE { e \in SequentialReturn(n - 1) : e.path # file_paths[n] }
         \cup { [path |-> file_paths[n], result |-> parse_path[file_paths[n]][now].result] }

\* C27: for a list of distinct documents, whatever the worker bound and the
\* interleaving of the workers, parallel batch_parse returns the mapping
\* sequential batch_parse returns (same keys, same result per key); while it
\* runs the mapping holds the results of the futures collected so far and of
\* no other, so a worker that finishes writes nothing to it.
Thm_C27_ParallelEqualsSequential ==
    DistinctDocuments
    => /\ batch_pc = "returned"
          => /\ Mapping(results) = SequentialReturn(Len(file_paths))
             /\ Len(results) = Cardinality(Mapping(results))
       /\ parallel
          => Mapping(results)
               = { [path |-> file_paths[yielded[k]], result |-> futures[yielded[k]].outcome.result] :
                     k \in { l \in 1..Len(yielded) : ~futures[yielded[l]].outcome.raised } }

\* a parallel batch of three distinct documents, two workers, the second
\* document finished before the first, returned two or more results
Wit_C27_InterleavedWorkers ==
    /\ batch_pc = "returned"
    /\ parallel
    /\ max_workers = 2
    /\ DistinctDocuments
    /\ Len(file_paths) = 3
    /\ completions[1] = 2
    /\ Len(results) >= 2

\* the match m of the text stands as a word of its own: no letter or digit
\* touches it on either side
Standalone(txt, m) ==
    /\ m.start = 1 \/ SubSeq(txt, m.start - 1, m.start - 1) \notin (Alpha \cup Digit)
    /\ m.end > Len(txt) \/ SubSeq(txt, m.end, m.end) \notin (Alpha \cup Digit)

\* the entries of the institution table whose name occurs in the text as a
\* standalone word
InstitutionNamed(txt) ==
    { k \in 1..Len(institution_patterns) :
        \E j \in 1..Len(re_finditer(institution_patterns[k].pattern, txt)) :
            Standalone(txt, re_finditer(institution_patterns[k].pattern, txt)[j]) }

\* C28 (as stated): classification reacts only to institution names that
\* stand as words of their own: a text naming no institution is "unknown"
\* even when a name occurs inside a longer word, and a text naming one
\* institution is classified as that institution.
Cex_C28_StandaloneNamesOnly ==
    pc = "detect_statement_type" =>
        /\ InstitutionNamed(text) = {} => institution = "unknown"
        /\ InstitutionNamed(text) # {}
             => institution = institution_patterns[Min(InstitutionNamed(text))].id

\* the amount tokens of a text: the matches of the amount part of the
\* generic pattern
AmountTokenMatches(txt) ==
    re_finditer(Pattern(FALSE, Cat(<<Sign, Opt(Lit("$")), Plus(Cls(Digit \cup {","})),
                                     Lit("."), Digits(2, 2)>>)), txt)

\* where the amount tokens of the entries found by one pass end
PassTokenEnds(sep) ==
    { GenericMatches(sep)[k].end : k \in 1..Len(GenericMatches(sep)) }

\* C29 (as stated): in the generic strategy the slash pass and the dash pass
\* never both emit a transaction ending in the same amount token, and the
\* number of returned transactions never exceeds the number of amount tokens
\* of the span.
Cex_C29_OneTransactionPerAmountToken ==
    (pc = "done" /\ Strategy = "generic") =>
        /\ PassTokenEnds("/") \cap PassTokenEnds("-") = {}
        /\ Len(transactions) <= Len(AmountTokenMatches(Section.text))

\* the places of the list holding a document whose parse never completes
RunawayPlaces == { i \in 1..Len(file_paths) : ~Terminates(file_paths[i]) }

\* C26: when the parse of every document terminates, batch_parse eventually
\* returns, in both modes; it has not returned as long as a submitted parse
\* is pending or running; and in sequential mode no document listed after
\* one whose parse never completes is ever started.
Thm_C26_ReturnsIffParsesTerminate ==
    /\ (RunawayPlaces = {}) ~> (batch_pc = "returned")
    /\ [](batch_pc = "returned"
            => /\ \A i \in 1..Len(futures) : futures[i].state = "finished"
               /\ { completions[k] : k \in 1..Len(completions) } = 1..Len(file_paths))
    /\ []((~parallel /\ RunawayPlaces # {})
            => /\ next_path <= Min(RunawayPlaces)
               /\ \A k \in 1..Len(completions) : completions[k] < Min(RunawayPlaces)
               /\ batch_pc # "returned")

\* a parallel batch of three documents, one of which raised, has returned
\* after both workers finished their parses out of input order
Wit_C26_ReturnedAfterEveryParse ==
    /\ batch_pc = "returned"
    /\ parallel
    /\ max_workers = 2
    /\ Len(file_paths) = 3
    /\ RunawayPlaces = {}
    /\ Len(errors) >= 1
    /\ completions[1] = 2

=============================================================================
